---- MODULE Spec2Model ----
(***************************************************************************)
(* Model of the GitLab job log analysis engine (analyzeGitLabJobLogs and   *)
(* its helpers).  Log text is kept as real strings; String.includes,       *)
(* String.split, toLowerCase and the regular expressions of the source are *)
(* computed character by character.                                        *)
(***************************************************************************)
EXTENDS Integers, Sequences, FiniteSets, TLC

(***************************************************************************)
(* Inputs                                                                  *)
(***************************************************************************)
MaxLines == 3
MaxVolume == 22

LinePool == {
  "",
  "Building",
  "Testing build step",
  "WARNING: deployment is slow",
  "failed",
  "error: image nginx:bad not found",
  "ERROR: docker permission denied",
  "docker: permission denied",
  "warning: error budget low",
  "kubectl info: fatal exception" }

\* lines of the error-volume inputs
VolumePool ==
  { "failed", "ERROR: docker permission denied", "Building", "WARNING: deployment is slow" }

MaxEdgeLines == 3

\* lines with section markers, equal fallback scores, severity overlaps and
\* several matching rules
EdgePool == {
  "section_start:17:build",
  "section_start:18:test",
  "error: image not found, permission denied CrashLoopBackOff",
  "job failed",
  "fatal: stop",
  "panic now",
  "fatal exit code 2",
  "warn: info quota exceeded",
  "error in warning info",
  "info: done" }

MaxMetaLines == 3

\* lines with timestamps of both shapes and 'Checking out' lines
MetaPool == {
  "2024-01-01T00:00:00.5Z start",
  "2024-01-02 10:20:30 step",
  "at 2024-01-03 11:00:00 and 2024-01-04 12:00:00",
  "Checking out abc123 as main",
  "checking out 0A1B as release.1",
  "Building",
  "failed" }

MaxRepeat == 9

\* lines whose rules belong to one category, to two categories or to none
RepeatPool == {
  "docker failed: no space left on device",
  "failed forbidden: sa cannot get resource",
  "ERROR: docker permission denied",
  "Building" }

MaxAdviceLines == 3

\* lines that name a technology, match a rule, do both or do neither
AdvicePool == {
  "docker error: image x not found",
  "docker failed: no space left on device",
  "failed forbidden: sa cannot get resource",
  "kubectl error validating x",
  "ERROR: (gcloud.run) bad",
  "using docker and terraform",
  "Building",
  "failed" }

ScenarioLog ==
  "2024-01-01T00:00:00Z Running with gitlab-runner abc on shared-runner-1\nBuilding\nerror: image nginx:bad not found\nTesting\nfailed"

(***************************************************************************)
(* Characters and strings                                                  *)
(***************************************************************************)
NL == "\n"

UpperChars == {"A","B","C","D","E","F","G","H","I","J","K","L","M",
               "N","O","P","Q","R","S","T","U","V","W","X","Y","Z"}

LowerChars == {"a","b","c","d","e","f","g","h","i","j","k","l","m",
               "n","o","p","q","r","s","t","u","v","w","x","y","z"}

DigitChars == {"0","1","2","3","4","5","6","7","8","9"}

SpaceChars == {" ", "\t", "\n", "\r", "\f"}

LowerMap ==
  ("A" :> "a") @@ ("B" :> "b") @@ ("C" :> "c") @@ ("D" :> "d") @@
  ("E" :> "e") @@ ("F" :> "f") @@ ("G" :> "g") @@ ("H" :> "h") @@
  ("I" :> "i") @@ ("J" :> "j") @@ ("K" :> "k") @@ ("L" :> "l") @@
  ("M" :> "m") @@ ("N" :> "n") @@ ("O" :> "o") @@ ("P" :> "p") @@
  ("Q" :> "q") @@ ("R" :> "r") @@ ("S" :> "s") @@ ("T" :> "t") @@
  ("U" :> "u") @@ ("V" :> "v") @@ ("W" :> "w") @@ ("X" :> "x") @@
  ("Y" :> "y") @@ ("Z" :> "z")

\* s[p] for a 1-based position p
CharAt(s, p) == SubSeq(s, p, p)

RECURSIVE SplitFrom(_, _)
\* pieces of s from 1-based position b on
SplitFrom(s, b) ==
  LET nls == { p \in b..Len(s) : CharAt(s, p) = NL }
  IN  IF nls = {} THEN << SubSeq(s, b, Len(s)) >>
      ELSE LET p == CHOOSE q \in nls : \A r \in nls : q <= r
           IN  << SubSeq(s, b, p - 1) >> \o SplitFrom(s, p + 1)

\* logs.split('\n'): the empty string gives one empty line
SplitLines(s) == SplitFrom(s, 1)

RECURSIVE JoinLines(_)
\* Array.prototype.join('\n'), used to build input texts
JoinLines(ls) ==
  IF Len(ls) = 0 THEN ""
  ELSE IF Len(ls) = 1 THEN ls[1]
       ELSE JoinLines(SubSeq(ls, 1, Len(ls) - 1)) \o NL \o ls[Len(ls)]

\* every line that occurs in an input
KnownLines ==
  LinePool \cup VolumePool \cup EdgePool \cup MetaPool \cup RepeatPool \cup AdvicePool \cup UNION { { ls[k] : k \in DOMAIN ls } : ls \in { SplitLines(ScenarioLog) } }

RECURSIVE LowerOf(_)
\* every character lower-cased (by halves)
LowerOf(s) ==
  IF Len(s) = 0 THEN ""
  ELSE IF Len(s) = 1 THEN (IF s \in UpperChars THEN LowerMap[s] ELSE s)
  ELSE LET h == Len(s) \div 2
       IN  LowerOf(SubSeq(s, 1, h)) \o LowerOf(SubSeq(s, h + 1, Len(s)))

\* lower-cased form of every line of the inputs, computed once
LowerTable == [l \in KnownLines |-> LowerOf(l)] @@ << >>

\* table[s] when the table has s, else the lower-cased form computed
LowerLookup(table, s) == IF s \in DOMAIN table THEN table[s] ELSE LowerOf(s)

\* String.prototype.toLowerCase
ToLowerCase(s) == LowerLookup(LowerTable, s)

\* the substring of s starting at 0-based offset p has prefix sub
StartsAt(s, p, sub) ==
  /\ p + Len(sub) <= Len(s)
  /\ SubSeq(s, p + 1, p + Len(sub)) = sub

\* String.prototype.includes
Includes(s, sub) == \E p \in 0..Len(s) : StartsAt(s, p, sub)

RECURSIVE TrimLeft(_)
TrimLeft(s) ==
  IF Len(s) > 0 /\ CharAt(s, 1) \in SpaceChars
  THEN TrimLeft(SubSeq(s, 2, Len(s))) ELSE s

RECURSIVE TrimRight(_)
TrimRight(s) ==
  IF Len(s) > 0 /\ CharAt(s, Len(s)) \in SpaceChars
  THEN TrimRight(SubSeq(s, 1, Len(s) - 1)) ELSE s

\* String.prototype.trim
Trim(s) == TrimRight(TrimLeft(s))

(***************************************************************************)
(* Regular expressions: a backtracking matcher with the priorities of the  *)
(* JavaScript engine (leftmost start, alternatives in order, greedy        *)
(* quantifiers).  A regular expression is [i, alts]: the ignore-case flag  *)
(* and the alternatives, each a sequence of elements                       *)
(*   [t |-> "lit", s]            a literal string                          *)
(*   [t |-> "rep", c, lo, hi]    lo..hi characters of class c (hi = -1:    *)
(*                               unbounded), greedy                        *)
(***************************************************************************)
Lit(s) == [t |-> "lit", s |-> s, c |-> "", lo |-> 0, hi |-> 0]
Rep(c, lo, hi) == [t |-> "rep", s |-> "", c |-> c, lo |-> lo, hi |-> hi]
Star(c) == Rep(c, 0, -1)
Plus(c) == Rep(c, 1, -1)
Times(c, n) == Rep(c, n, n)

InClass(ch, c) ==
  CASE c = "any"      -> ch \notin {"\n", "\r"}                   \* .
    [] c = "digit"    -> ch \in DigitChars                        \* \d [0-9]
    [] c = "space"    -> ch \in SpaceChars                        \* \s
    [] c = "nonspace" -> ch \notin SpaceChars                     \* [^\s]
    [] c = "word"     -> ch \in UpperChars \cup LowerChars \cup DigitChars \cup {"_"}  \* \w
    [] c = "worddot"  -> ch \in UpperChars \cup LowerChars \cup DigitChars \cup {"_", "."} \* [\w\.]
    [] c = "notnl"    -> ch # "\n"                                \* [^\n]
    [] c = "notcomma" -> ch # ","                                 \* [^,]
    [] c = "notdot"   -> ch # "."                                 \* [^\.]
    [] c = "hex"      -> ch \in DigitChars \cup {"a","b","c","d","e","f"}  \* [0-9a-f]
    [] c = "digcolon" -> ch \in DigitChars \cup {":"}             \* [0-9:]
    [] c = "lowus"    -> ch \in LowerChars \cup {"_"}             \* [a-z_]
    [] c = "d19"      -> ch \in DigitChars \ {"0"}                \* [1-9]
    [] c = "not0"     -> ch # "0"                                 \* [^0]

\* the largest offset q in p..lim with s[p+1..q] all of class c
RunEnd(s, p, c, lim) ==
  CHOOSE q \in p..lim :
    /\ \A k \in (p + 1)..q : InClass(CharAt(s, k), c)
    /\ q < lim => ~InClass(CharAt(s, q + 1), c)

NoMatch == << >>

\* p in front of the offsets of a match of the rest
Prepend(p, r) == IF r = NoMatch THEN NoMatch ELSE << p >> \o r

\* among matches that differ in the end of their first element, the one
\* where it is longest
Longest(p, ms) ==
  IF ms = {} THEN NoMatch
  ELSE CHOOSE m \in ms : \A n \in ms : n[2] <= m[2]

\* the largest offset a quantified element starting at p may reach
RepLimit(e, s, p) == IF e.hi < 0 \/ p + e.hi > Len(s) THEN Len(s) ELSE p + e.hi

RECURSIVE MatchFrom(_, _, _, _)

\* Match elements k.. of alt at offset p of s.  The result is the sequence
\* of offsets at which elements k, k+1, ... start, followed by the end
\* offset of the match, or NoMatch.
MatchFrom(alt, k, s, p) ==
  IF k > Len(alt) THEN << p >>
  ELSE IF alt[k].t = "lit"
       THEN IF StartsAt(s, p, alt[k].s)
            THEN Prepend(p, MatchFrom(alt, k + 1, s, p + Len(alt[k].s)))
            ELSE NoMatch
       ELSE \* greedy: the longest run after which the rest matches
            Longest(p, { << p >> \o r :
                           r \in { MatchFrom(alt, k + 1, s, q) :
                                     q \in (p + alt[k].lo)..RunEnd(s, p, alt[k].c, RepLimit(alt[k], s, p)) }
                                 \ { NoMatch } })

RECURSIVE MatchAlts(_, _, _, _)
RECURSIVE OrElse(_, _, _, _, _)
\* the alternatives in order at one start offset
MatchAlts(alts, a, s, p) ==
  IF a > Len(alts) THEN NoMatch
  ELSE OrElse(a, MatchFrom(alts[a], 1, s, p), alts, s, p)

\* the match r of alternative a, or else the later alternatives
OrElse(a, r, alts, s, p) ==
  IF r # NoMatch THEN [alt |-> a, b |-> r] ELSE MatchAlts(alts, a + 1, s, p)

\* of matches at different starts, the one that starts first
Leftmost(ms) ==
  IF ms = {} THEN NoMatch
  ELSE CHOOSE m \in ms : \A n \in ms : m.b[1] <= n.b[1]

\* leftmost match of alts in s
ExecFrom(alts, s) ==
  Leftmost({ MatchAlts(alts, 1, s, p) : p \in 0..Len(s) } \ { NoMatch })

\* a regular expression with its literals lower-cased
LowerLiterals(alts) ==
  [a \in DOMAIN alts |->
     [k \in DOMAIN alts[a] |->
        IF alts[a][k].t = "lit" THEN Lit(ToLowerCase(alts[a][k].s)) ELSE alts[a][k]]]

\* String.prototype.match / RegExp.prototype.exec without the g flag
RegexExec(re, s) ==
  IF re.i THEN ExecFrom(LowerLiterals(re.alts), ToLowerCase(s))
  ELSE ExecFrom(re.alts, s)

\* text of s between the start of element a and the end of element b of a match
Capture(s, m, a, b) == SubSeq(s, m.b[a] + 1, m.b[b + 1])


\* a regular expression with the i flag: the text is matched lower-cased
\* against lower-cased literals
IgnoreCase(alts) == [i |-> TRUE, alts |-> alts]

CaseSensitive(alts) == [i |-> FALSE, alts |-> alts]

\* /a|b|c/i over plain words
AnyOfI(words) == IgnoreCase([k \in DOMAIN words |-> << Lit(words[k]) >>])

(***************************************************************************)
(* Sequences used as the source uses arrays and insertion-ordered Sets     *)
(***************************************************************************)
Range(seq) == { seq[k] : k \in DOMAIN seq }

\* Set.prototype.add on an insertion-ordered Set
SetAdd(seq, x) == IF x \in Range(seq) THEN seq ELSE Append(seq, x)

\* variant: the cap is off by one
SliceOneMore(seq, n) == SubSeq(seq, 1, IF Len(seq) < n + 1 THEN Len(seq) ELSE n + 1)

\* Array.prototype.slice(0, n)
Slice(seq, n) == SubSeq(seq, 1, IF Len(seq) < n THEN Len(seq) ELSE n)

\* variant: duplicates are kept
UniqueKeepAll(seq) == seq

RECURSIVE Unique(_)
\* [...new Set(seq)]: the first occurrence of every element, in order
Unique(seq) ==
  IF Len(seq) = 0 THEN << >>
  ELSE LET front == Unique(SubSeq(seq, 1, Len(seq) - 1))
       IN  SetAdd(front, seq[Len(seq)])

\* Array.prototype.indexOf (0-based, -1 when absent)
IndexOf(seq, x) ==
  IF x \in Range(seq)
  THEN (CHOOSE k \in DOMAIN seq : seq[k] = x /\ \A j \in 1..(k - 1) : seq[j] # x) - 1
  ELSE -1

\* number of positions of seq satisfying the boolean sequence/function f
CountOf(seq, Test(_)) == Cardinality({ k \in DOMAIN seq : Test(seq[k]) })

(***************************************************************************)
(* Patterns of the job-context pass                                        *)
(***************************************************************************)
\* /(\d{4}-\d{2}-\d{2}T\d{2}:\d{2}:\d{2}.\d+Z|\d{4}-\d{2}-\d{2} \d{2}:\d{2}:\d{2})/
timePattern ==
  CaseSensitive(<<
    << Times("digit", 4), Lit("-"), Times("digit", 2), Lit("-"), Times("digit", 2),
       Lit("T"), Times("digit", 2), Lit(":"), Times("digit", 2), Lit(":"),
       Times("digit", 2), Times("any", 1), Plus("digit"), Lit("Z") >>,
    << Times("digit", 4), Lit("-"), Times("digit", 2), Lit("-"), Times("digit", 2),
       Lit(" "), Times("digit", 2), Lit(":"), Times("digit", 2), Lit(":"),
       Times("digit", 2) >> >>)

\* /Running with gitlab-(runner|ci) [^,]*\s+on\s+([^\s]+)/
ciJobNamePattern ==
  CaseSensitive(<<
    << Lit("Running with gitlab-runner "), Star("notcomma"), Plus("space"),
       Lit("on"), Plus("space"), Plus("nonspace") >>,
    << Lit("Running with gitlab-ci "), Star("notcomma"), Plus("space"),
       Lit("on"), Plus("space"), Plus("nonspace") >> >>)

\* /Checking out ([0-9a-f]+) as ([^\.]+)/i
gitRefPattern ==
  IgnoreCase(<< << Lit("Checking out "), Plus("hex"), Lit(" as "), Plus("notdot") >> >>)

\* /section_start:[0-9:]+:([a-z_]+)/
stagePattern ==
  CaseSensitive(<< << Lit("section_start:"), Plus("digcolon"), Lit(":"), Plus("lowus") >> >>)

(***************************************************************************)
(* The rule catalog, in the key order of the object literal                *)
(***************************************************************************)
Rule(alts, issue, solution) ==
  [pattern |-> [i |-> TRUE, alts |-> alts], issue |-> issue, solution |-> solution]

dockerErrors == <<
  Rule(<< << Lit("image"), Star("any"), Lit("not"), Star("space"), Lit("found") >> >>,
       "Docker image not found",
       "Verify the image name and ensure it exists in your registry"),
  Rule(<< << Lit("permission denied") >> >>,
       "Docker permission issue",
       "Check if the runner has proper permissions to pull/push images"),
  Rule(<< << Lit("no space left on device") >> >>,
       "Disk space issue",
       "Clean up unnecessary images or increase disk space on the runner"),
  Rule(<< << Lit("unauthorized") >>, << Lit("authentication required") >> >>,
       "Docker registry authentication failure",
       "Check your registry credentials and ensure they are correctly configured in your CI/CD settings"),
  Rule(<< << Lit("network timeout") >> >>,
       "Docker network timeout",
       "Check network connectivity between your runner and the registry"),
  Rule(<< << Lit("failed to compute cache key") >> >>,
       "Docker build cache issue",
       "Try clearing the Docker build cache or fixing cache configuration") >>

kubernetesErrors == <<
  Rule(<< << Lit("error validating") >>, << Lit("validation failed") >> >>,
       "Kubernetes manifest validation failure",
       "Check your YAML files for syntax errors or invalid configurations"),
  Rule(<< << Lit("forbidden: "), Plus("notnl"), Lit("cannot "), Plus("word"), Lit(" resource") >> >>,
       "Kubernetes permission issue",
       "Verify service account permissions and RBAC settings"),
  Rule(<< << Lit("admission webhook"), Star("any"), Lit("denied") >> >>,
       "Admission controller rejection",
       "Review the webhook policy constraints and adjust your resources accordingly"),
  Rule(<< << Lit("CrashLoopBackOff") >> >>,
       "Pod crash loop",
       "Check container logs for application errors causing restart loops"),
  Rule(<< << Lit("ImagePullBackOff") >> >>,
       "Failed to pull container image",
       "Verify image name, tag and registry access"),
  Rule(<< << Lit("Unhealthy"), Star("any"), Lit("probe failed") >> >>,
       "Health check failure",
       "Review your health check configuration and ensure your application is responding correctly") >>

terraformErrors == <<
  Rule(<< << Lit("error applying plan") >> >>,
       "Terraform apply failure",
       "Review the specific resource errors and verify your configurations"),
  Rule(<< << Lit("Error: configuring Terraform AWS Provider") >> >>,
       "AWS provider configuration issue",
       "Check AWS credentials and region settings"),
  Rule(<< << Lit("Error: Error creating "), Star("any"), Lit(" ResourceNotFoundException") >> >>,
       "Resource not found",
       "Verify the specified resource exists or check permissions"),
  Rule(<< << Lit("Error: No valid credential sources found") >> >>,
       "Provider authentication failure",
       "Verify your authentication configuration for the provider"),
  Rule(<< << Lit("Error: Error acquiring the state lock") >> >>,
       "State lock issue",
       "Check if a previous Terraform operation is still running or manually release the state lock"),
  Rule(<< << Lit("Error: Module not installed") >> >>,
       "Missing module",
       "Run terraform init to install required modules") >>

gcpErrors == <<
  Rule(<< << Lit("gcloud: command not found") >> >>,
       "gcloud CLI not installed",
       "Ensure gcloud CLI is installed in your CI environment"),
  Rule(<< << Lit("ERROR: (gcloud."), Plus("worddot"), Lit(")") >> >>,
       "gcloud command error",
       "Check gcloud command parameters and permissions"),
  Rule(<< << Lit("forbidden: "), Star("any"), Lit(" does not have "), Star("any"), Lit(" permission") >> >>,
       "GCP permission issue",
       "Verify service account has the required IAM roles"),
  Rule(<< << Lit("NOT_FOUND: The resource "), Star("any"), Lit(" was not found") >> >>,
       "GCP resource not found",
       "Check if the referenced resource exists or is accessible"),
  Rule(<< << Lit("ALREADY_EXISTS: "), Star("any") >> >>,
       "Resource already exists",
       "Handle existing resource or use unique names"),
  Rule(<< << Lit("FAILED_PRECONDITION: "), Star("any") >> >>,
       "Precondition failure",
       "Ensure all prerequisites for the operation are met"),
  Rule(<< << Lit("QUOTA_EXCEEDED: "), Star("any") >> >>,
       "GCP quota exceeded",
       "Request quota increase or optimize resource usage") >>

npmErrors == <<
  Rule(<< << Lit("npm ERR! code E404") >> >>,
       "NPM package not found",
       "Verify package name and version in package.json"),
  Rule(<< << Lit("npm ERR! code ENOENT") >> >>,
       "File or directory not found",
       "Check file paths in your package.json scripts"),
  Rule(<< << Lit("npm ERR! code ELIFECYCLE") >> >>,
       "NPM script execution failure",
       "Examine the specific script that failed in package.json"),
  Rule(<< << Lit("npm ERR! "), Star("any"), Lit(" failed to fetch") >> >>,
       "Network issue fetching package",
       "Check network connectivity to npm registry"),
  Rule(<< << Lit("npm ERR! "), Star("any"), Lit(" ETIMEDOUT") >> >>,
       "Connection timeout",
       "Check network connectivity or try using a different registry"),
  Rule(<< << Lit("npm ERR! "), Star("any"), Lit(" incompatible with this version") >> >>,
       "Dependency compatibility issue",
       "Update your dependencies or use compatible versions") >>

pythonErrors == <<
  Rule(<< << Lit("ModuleNotFoundError: No module named") >> >>,
       "Python module not found",
       "Ensure all dependencies are in requirements.txt and properly installed"),
  Rule(<< << Lit("SyntaxError: ") >> >>,
       "Python syntax error",
       "Fix syntax errors in your Python code"),
  Rule(<< << Lit("ImportError: ") >> >>,
       "Python import error",
       "Check your import statements and ensure packages are installed"),
  Rule(<< << Lit("AttributeError: ") >> >>,
       "Python attribute error",
       "Verify object attributes exist before accessing them"),
  Rule(<< << Lit("TypeError: ") >> >>,
       "Python type error",
       "Check type compatibility in your function calls and operations"),
  Rule(<< << Lit("IndexError: ") >> >>,
       "Python index error",
       "Ensure array indices are within bounds"),
  Rule(<< << Lit("KeyError: ") >> >>,
       "Python key error",
       "Verify dictionary keys exist before accessing them") >>

javaErrors == <<
  Rule(<< << Lit("could not find or load main class") >> >>,
       "Java class not found",
       "Verify classpath and package structure"),
  Rule(<< << Lit("compilation failure") >> >>,
       "Java compilation error",
       "Fix compile-time errors in your Java code"),
  Rule(<< << Lit("OutOfMemoryError") >> >>,
       "Java out of memory error",
       "Increase memory allocation for the Java process or optimize memory usage"),
  Rule(<< << Lit("NoClassDefFoundError") >> >>,
       "Class definition not found",
       "Check your classpath and ensure all dependencies are included"),
  Rule(<< << Lit("ClassNotFoundException") >> >>,
       "Class not found",
       "Verify the class exists in your build path"),
  Rule(<< << Lit("UnsupportedClassVersionError") >> >>,
       "Unsupported Java version",
       "Compile for a compatible Java version or update your JDK") >>

generalErrors == <<
  Rule(<< << Lit("command not found") >> >>,
       "Command not available",
       "Ensure the required CLI tools are installed in your CI environment"),
  Rule(<< << Lit("connection timed out") >> >>,
       "Network timeout",
       "Check network connectivity and endpoint availability"),
  Rule(<< << Lit("authentication failed") >> >>,
       "Authentication error",
       "Verify credentials and access tokens"),
  Rule(<< << Lit("insufficient memory") >> >>,
       "Memory issue",
       "Increase memory allocation for your job"),
  Rule(<< << Lit("quota exceeded") >> >>,
       "Resource quota exceeded",
       "Optimize resource utilization or request quota increase"),
  Rule(<< << Lit("permission denied") >> >>,
       "Permission issue",
       "Check file or resource permissions"),
  Rule(<< << Lit("invalid argument") >> >>,
       "Invalid argument",
       "Review command arguments for correctness"),
  Rule(<< << Lit("file not found") >> >>,
       "File not found",
       "Verify file paths and existence") >>

\* Object.entries(patterns)
patterns == <<
  [category |-> "docker",     errors |-> dockerErrors],
  [category |-> "kubernetes", errors |-> kubernetesErrors],
  [category |-> "terraform",  errors |-> terraformErrors],
  [category |-> "gcp",        errors |-> gcpErrors],
  [category |-> "npm",        errors |-> npmErrors],
  [category |-> "python",     errors |-> pythonErrors],
  [category |-> "java",       errors |-> javaErrors],
  [category |-> "general",    errors |-> generalErrors] >>

Categories == { patterns[c].category : c \in DOMAIN patterns }

stagePatterns == <<
  [pattern |-> AnyOfI(<< "building", "build stage", "build step", "building image", "docker build" >>),
   stage |-> "build", context |-> "build"],
  [pattern |-> AnyOfI(<< "testing", "test stage", "running tests", "test step", "test suite", "test runner" >>),
   stage |-> "test", context |-> "test"],
  [pattern |-> AnyOfI(<< "deploying", "deployment", "deploy stage", "releasing", "promotion", "promote to" >>),
   stage |-> "deploy", context |-> "deployment"],
  [pattern |-> AnyOfI(<< "linting", "lint check", "code quality", "quality gate", "sonar" >>),
   stage |-> "lint", context |-> "code quality"],
  [pattern |-> AnyOfI(<< "security scan", "vulnerability", "cve", "snyk", "owasp" >>),
   stage |-> "security", context |-> "security"],
  [pattern |-> AnyOfI(<< "terraform plan", "terraform init", "terraform apply", "tf apply" >>),
   stage |-> "infrastructure", context |-> "infrastructure"] >>

\* the technology keywords of the scan, in the order of the if statements
technologyKeywords == <<
  [tech |-> "docker",     words |-> << "docker" >>],
  [tech |-> "kubernetes", words |-> << "kubectl", "kubernetes", " k8s " >>],
  [tech |-> "terraform",  words |-> << "terraform", " tf " >>],
  [tech |-> "gcp",        words |-> << "gcloud", "gsutil", "google cloud" >>],
  [tech |-> "npm",        words |-> << "npm " >>],
  [tech |-> "yarn",       words |-> << "yarn " >>],
  [tech |-> "python",     words |-> << "python", "pip " >>],
  [tech |-> "java",       words |-> << "gradle", "mvn ", "java " >>],
  [tech |-> "golang",     words |-> << "go ", "golang" >>],
  [tech |-> "dotnet",     words |-> << "dotnet", "csharp", ".net" >>] >>

errorKeywords == << "error", "exception", "failed", "fatal", "panic" >>
warningKeywords == << "warning", "warn" >>
infoKeywords == << "info", "notice" >>

\* /exit code [1-9]/i
exitCodePattern == IgnoreCase(<< << Lit("exit code "), Times("d19", 1) >> >>)

\* /exit code [^0]/i
nonZeroExitPattern == IgnoreCase(<< << Lit("exit code "), Times("not0", 1) >> >>)

\* every regular expression of the engine
AllRegexes ==
  { timePattern, ciJobNamePattern, gitRefPattern, stagePattern,
    exitCodePattern, nonZeroExitPattern }
    \cup { rule.pattern : rule \in Range(stagePatterns) }
    \cup UNION { { rule.pattern : rule \in Range(cat.errors) } : cat \in Range(patterns) }

\* the match of every regular expression on every line of the inputs and on
\* its lower-cased form, computed once
RegexTable ==
  [re \in AllRegexes |->
     [l \in UNION { { k, ToLowerCase(k) } : k \in KnownLines } |-> RegexExec(re, l)] @@ << >>]
  @@ << >>

\* table[re][s] when the table has it, else the match computed
MatchLookup(table, re, s) ==
  IF re \in DOMAIN table /\ s \in DOMAIN table[re] THEN table[re][s] ELSE RegexExec(re, s)

\* String.prototype.match
Match(re, s) == MatchLookup(RegexTable, re, s)

\* RegExp.prototype.test
RegexTest(re, s) == Match(re, s) # NoMatch


(***************************************************************************)
(* Inputs (continued)                                                      *)
(***************************************************************************)
\* all sequences of at most n lines of the pool
LineSeqs(n) == UNION { [1..m -> LinePool] : m \in 0..n }

Copies(line, n) == [k \in 1..n |-> line]

VolumeInputs ==
  { JoinLines(Copies(a, n) \o Copies(b, m)) :
      << a, b, n, m >> \in { q \in VolumePool \X VolumePool \X (0..MaxVolume) \X (0..MaxVolume) :
                              q[3] + q[4] <= MaxVolume } }

LogInputs == { JoinLines(ls) : ls \in LineSeqs(MaxLines) } \cup { ScenarioLog }

EdgeInputs == { JoinLines(ls) : ls \in UNION { [1..m -> EdgePool] : m \in 0..MaxEdgeLines } }

\* n copies of one line followed by m copies of another
RepeatInputs ==
  { JoinLines(Copies(q[1], q[3]) \o Copies(q[2], q[4])) :
      q \in { r \in RepeatPool \X RepeatPool \X (0..MaxRepeat) \X (0..MaxRepeat) :
                r[3] + r[4] <= MaxRepeat } }

AdviceInputs == { JoinLines(ls) : ls \in UNION { [1..m -> AdvicePool] : m \in 0..MaxAdviceLines } }

MetaInputs == { JoinLines(ls) : ls \in UNION { [1..m -> MetaPool] : m \in 0..MaxMetaLines } }

(***************************************************************************)
(* State of one call of analyzeGitLabJobLogs                               *)
(***************************************************************************)
VARIABLES
  logs,           \* the argument
  lines,          \* logs.split('\n')
  pc,             \* "context", "scan" or "done"; "idle" when no call runs
  i,              \* loop index of the running pass (0-based)
  jobContext,
  errorLines, warningLines, infoLines,
  issues,
  technologies,   \* Set<string>, in insertion order
  detectedStage, stageContext,
  report,         \* the returned object, NoReport until the call returns
  history,        \* the log and the report of every earlier call, in call order
  sessions,       \* the Map of sessions: id -> Session
  now,            \* Date.now(), in minutes
  nextCleanup,    \* when the cleanup interval fires next
  lookup,         \* the last call of getSessionAndUpdate and what it returned
  requests,       \* the webhook requests: body, position, resolved session, response
  connections,    \* the SSE connections: session, position, what was written to them
  listeners,      \* the 'mcp-event' listeners of eventEmitter, in registration order
  emitted         \* the events passed to eventEmitter.emit, in order

\* the locals of analyzeGitLabJobLogs
callVars == << logs, lines, pc, i, jobContext, errorLines, warningLines, infoLines,
               issues, technologies, detectedStage, stageContext, report >>

\* the session store and the clock
serverVars == << sessions, now, nextCleanup, lookup >>

\* the webhook requests, the SSE connections and the event emitter
webVars == << requests, connections, listeners, emitted >>

vars == << callVars, history, serverVars, webVars >>

NoReport == [returned |-> FALSE]

emptyFailureContext == [c \in Categories |-> << >>]

initialJobContext ==
  [jobStartTime |-> "", jobEndTime |-> "", ciJobName |-> "", gitRef |-> "",
   gitSha |-> "", executionTime |-> 0, environment |-> "", runners |-> << >>,
   stages |-> << >>, currentStage |-> "", failureContext |-> emptyFailureContext]

InitCall(text) ==
  /\ logs = text
  /\ lines = SplitLines(text)
  /\ pc = "context"
  /\ i = 0
  /\ jobContext = initialJobContext
  /\ errorLines = << >>
  /\ warningLines = << >>
  /\ infoLines = << >>
  /\ issues = << >>
  /\ technologies = << >>
  /\ detectedStage = "unknown"
  /\ stageContext = ""
  /\ report = NoReport

SessionTimeoutMinutes == 30
CleanupIntervalMinutes == 1

NoLookup == [id |-> "", found |-> FALSE]

MaxRequests == 2
MaxConnections == 2

\* the webhook requests and the SSE connections the server sees
RequestIds == 1..MaxRequests
ConnectionIds == 1..MaxConnections

\* a request that has not arrived
NoRequest ==
  [stage |-> "new",
   body |-> [parameters |-> FALSE, mcp_session_id |-> "", tool_name |-> ""],
   mcpSessionId |-> "", created |-> 0, status |-> 0, storeAtResponse |-> {}]

\* a connection that has not been opened
NoConnection == [stage |-> "none", sessionId |-> "", written |-> << >>]


\* the server after start: no session, the first cleanup one interval ahead
InitServer ==
  /\ history = << >>
  /\ sessions = << >>
  /\ now = 0
  /\ nextCleanup = CleanupIntervalMinutes
  /\ lookup = NoLookup
  /\ requests = [r \in RequestIds |-> NoRequest]
  /\ connections = [c \in ConnectionIds |-> NoConnection]
  /\ listeners = << >>
  /\ emitted = << >>

Init == InitServer /\ \E text \in LogInputs : InitCall(text)

\* inputs with many lines: n copies of one line followed by m copies of another
InitVolume == InitServer /\ \E text \in VolumeInputs : InitCall(text)

\* inputs of the lines of EdgePool
InitEdge == InitServer /\ \E text \in EdgeInputs : InitCall(text)

\* a call on a log of repeated lines
InitRepeat == InitServer /\ \E text \in RepeatInputs : InitCall(text)

\* a call on a log of technology and rule lines
InitAdvice == InitServer /\ \E text \in AdviceInputs : InitCall(text)

\* a call on a log of timestamp and checkout lines
InitMeta == InitServer /\ \E text \in MetaInputs : InitCall(text)

(***************************************************************************)
(* First pass: job context                                                 *)
(***************************************************************************)
\* the text of a whole match
MatchText(s, m) == SubSeq(s, m.b[1] + 1, m.b[Len(m.b)])

\* the += ' name' of an environment hint
AddEnvironment(environment, line, words, name) ==
  IF (\E k \in DOMAIN words : Includes(line, words[k])) /\ ~Includes(environment, name)
  THEN environment \o " " \o name
  ELSE environment

\* variant: the stage is pushed without the includes test
PushStageAlways(stages, stageName) == Append(stages, stageName)

\* if (!jobContext.stages.includes(stageName)) jobContext.stages.push(stageName)
PushStage(stages, stageName) ==
  IF stageName \notin Range(stages) THEN Append(stages, stageName) ELSE stages

\* variant: every timestamp overwrites the start time
SetStartTimeAlways(jobStartTime, line, timeMatch) ==
  IF timeMatch # NoMatch THEN MatchText(line, timeMatch) ELSE jobStartTime

\* if (!jobContext.jobStartTime) { ... jobContext.jobStartTime = timeMatch[1] }
SetStartTime(jobStartTime, line, timeMatch) ==
  IF jobStartTime = "" /\ timeMatch # NoMatch
  THEN MatchText(line, timeMatch) ELSE jobStartTime

\* the assignments of one iteration of the first loop, given its four matches
ContextUpdate(jc, line, timeMatch, ciJobMatch, gitRefMatch, stageMatch, stageName) ==
  [jc EXCEPT
    !.jobStartTime = SetStartTime(@, line, timeMatch),
    !.runners      = IF ciJobMatch # NoMatch
                     THEN SetAdd(@, Capture(line, ciJobMatch, 6, 6)) ELSE @,
    !.gitSha       = IF gitRefMatch # NoMatch
                     THEN Capture(line, gitRefMatch, 2, 2) ELSE @,
    !.gitRef       = IF gitRefMatch # NoMatch
                     THEN Capture(line, gitRefMatch, 4, 4) ELSE @,
    !.stages       = IF stageMatch # NoMatch THEN PushStage(@, stageName) ELSE @,
    !.currentStage = IF stageMatch # NoMatch THEN stageName ELSE @,
    !.environment  =
      AddEnvironment(
        AddEnvironment(
          AddEnvironment(@, line, << "docker", "container" >>, "docker"),
          line, << "kubernetes", "k8s" >>, "kubernetes"),
        line, << "google cloud", "gcloud" >>, "gcp"),
    !.jobEndTime   = IF timeMatch # NoMatch THEN MatchText(line, timeMatch) ELSE @]

\* the first capture group of stagePattern's match
StageName(line, stageMatch) == Capture(line, stageMatch, 4, 4)

\* one iteration of the first loop on jobContext jc
ContextLine(jc, line) ==
  ContextUpdate(jc, line, Match(timePattern, line), Match(ciJobNamePattern, line),
                Match(gitRefPattern, line), Match(stagePattern, line),
                StageName(line, Match(stagePattern, line)))

ContextStep ==
  /\ pc = "context"
  /\ i < Len(lines)
  /\ jobContext' = ContextLine(jobContext, lines[i + 1])
  /\ i' = i + 1
  /\ UNCHANGED << logs, lines, pc, errorLines, warningLines, infoLines, issues,
                  technologies, detectedStage, stageContext, report >>
  /\ UNCHANGED << history, serverVars, webVars >>

\* end of the first loop: environment.trim(), then the second loop starts
BeginScan ==
  /\ pc = "context"
  /\ i >= Len(lines)
  /\ jobContext' = [jobContext EXCEPT !.environment = Trim(@)]
  /\ pc' = "scan"
  /\ i' = 0
  /\ UNCHANGED << logs, lines, errorLines, warningLines, infoLines, issues,
                  technologies, detectedStage, stageContext, report >>
  /\ UNCHANGED << history, serverVars, webVars >>

(***************************************************************************)
(* Second pass: stage, technologies, severity and rule matching            *)
(***************************************************************************)
\* seq.push(x) under a condition
PushIf(seq, cond, x) == IF cond THEN Append(seq, x) ELSE seq

IncludesAny(s, words) == \E k \in DOMAIN words : Includes(s, words[k])

\* the assignment made when a stage rule matches
AssignStage(cur, rule, matched) ==
  IF matched THEN [stage |-> rule.stage, context |-> rule.context] ELSE cur

RECURSIVE DetectStageFirstRule(_, _, _)
\* variant: the loop over the stage rules stops at the first matching rule
DetectStageFirstRule(cur, lowerLine, rules) ==
  IF rules = << >> THEN cur
  ELSE IF RegexTest(Head(rules).pattern, lowerLine)
       THEN AssignStage(cur, Head(rules), TRUE)
       ELSE DetectStageFirstRule(cur, lowerLine, Tail(rules))

RECURSIVE DetectStage(_, _, _)
\* the for loop over the stage rules: every matching rule assigns
DetectStage(cur, lowerLine, rules) ==
  IF rules = << >> THEN cur
  ELSE DetectStage(AssignStage(cur, Head(rules), RegexTest(Head(rules).pattern, lowerLine)),
                   lowerLine, Tail(rules))

\* technologies.add(tech) when the line has one of the words
AddTechnology(techs, lowerLine, entry) ==
  IF IncludesAny(lowerLine, entry.words) THEN SetAdd(techs, entry.tech) ELSE techs

RECURSIVE AddTechnologies(_, _, _)
AddTechnologies(techs, lowerLine, entries) ==
  IF entries = << >> THEN techs
  ELSE AddTechnologies(AddTechnology(techs, lowerLine, Head(entries)), lowerLine, Tail(entries))

\* variant: the set is rebuilt for every line
DetectTechnologiesPerLine(techs, lowerLine, entries) ==
  AddTechnologies(<< >>, lowerLine, entries)

\* the chain of technologies.add statements
DetectTechnologies(techs, lowerLine, entries) ==
  AddTechnologies(techs, lowerLine, entries)

\* variant: 'denied' and 'exceeded' are error keywords too
IsErrorLineOrDenied(lowerLine) ==
  IncludesAny(lowerLine, << "error", "exception", "failed", "fatal", "panic", "denied", "exceeded" >>)

\* variant: 'failed' is not an error keyword
IsErrorLineNoFailed(lowerLine) ==
  IncludesAny(lowerLine, << "error", "exception", "fatal", "panic" >>)

IsErrorLine(lowerLine) == IncludesAny(lowerLine, errorKeywords)
IsWarningLine(lowerLine) == IncludesAny(lowerLine, warningKeywords)
IsInfoLine(lowerLine) == IncludesAny(lowerLine, infoKeywords)

\* the least index of a set of indices, 0 if there is none
FirstOf(hits) == IF hits = {} THEN 0 ELSE CHOOSE k \in hits : \A j \in hits : k <= j

\* index of the first rule of errs matching line, 0 if none (the inner for/break)
FirstMatch(errs, line) ==
  FirstOf({ k \in DOMAIN errs : RegexTest(errs[k].pattern, line) })

\* issues.push(...) for rule k of a category, nothing when k = 0
IssueOfRule(cat, k, line, lineContext, lineNumber) ==
  IF k = 0 THEN << >>
  ELSE << [category |-> cat.category,
           issue |-> cat.errors[k].issue,
           solution |-> cat.errors[k].solution,
           line |-> line,
           context |-> lineContext,
           lineNumber |-> lineNumber] >>

RECURSIVE MatchLineOfTechnology(_, _, _, _)
\* variant: a category is tried only on lines naming the category
MatchLineOfTechnology(line, lineContext, lineNumber, cats) ==
  IF cats = << >> THEN << >>
  ELSE IssueOfRule(Head(cats),
                   IF Includes(ToLowerCase(line), Head(cats).category)
                   THEN FirstMatch(Head(cats).errors, line) ELSE 0,
                   line, lineContext, lineNumber)
         \o MatchLineOfTechnology(line, lineContext, lineNumber, Tail(cats))

RECURSIVE MatchLineFirstCategory(_, _, _, _)
\* variant: the break leaves the loop over the categories as well
MatchLineFirstCategory(line, lineContext, lineNumber, cats) ==
  IF cats = << >> THEN << >>
  ELSE IF FirstMatch(Head(cats).errors, line) # 0
       THEN IssueOfRule(Head(cats), FirstMatch(Head(cats).errors, line),
                        line, lineContext, lineNumber)
       ELSE MatchLineFirstCategory(line, lineContext, lineNumber, Tail(cats))

RECURSIVE MatchLine(_, _, _, _)
\* the issues pushed for one error line: one per category with a matching rule
MatchLine(line, lineContext, lineNumber, cats) ==
  IF cats = << >> THEN << >>
  ELSE IssueOfRule(Head(cats), FirstMatch(Head(cats).errors, line),
                   line, lineContext, lineNumber)
         \o MatchLine(line, lineContext, lineNumber, Tail(cats))

\* jobContext.failureContext[category].push(...) for every new issue
RecordFailures(fc, found) ==
  [c \in Categories |->
     fc[c] \o [k \in 1..Len(SelectSeq(found, LAMBDA x : x.category = c)) |->
                 LET x == SelectSeq(found, LAMBDA y : y.category = c)[k]
                 IN  [issue |-> x.issue, line |-> x.line, lineNumber |-> x.lineNumber]]]

LineContext(ls, n) ==
  LET prevLine == IF n > 0 THEN ls[n] ELSE ""
      nextLine == IF n < Len(ls) - 1 THEN ls[n + 2] ELSE ""
  IN  Trim(prevLine \o NL \o ls[n + 1] \o NL \o nextLine)

\* variant: the three severity tests are independent if statements
ScanLineIndependent(line, lowerLine, st, techs, found) ==
  /\ detectedStage' = st.stage
  /\ stageContext' = st.context
  /\ technologies' = techs
  /\ errorLines' = PushIf(errorLines, IsErrorLine(lowerLine), line)
  /\ issues' = IF IsErrorLine(lowerLine) THEN issues \o found ELSE issues
  /\ jobContext' = IF IsErrorLine(lowerLine)
                   THEN [jobContext EXCEPT !.failureContext = RecordFailures(@, found)]
                   ELSE jobContext
  /\ warningLines' = PushIf(warningLines, IsWarningLine(lowerLine), line)
  /\ infoLines' = PushIf(infoLines, IsInfoLine(lowerLine), line)

\* the body of the second loop for one line, given what the line yields
ScanLine(line, lowerLine, st, techs, found) ==
  /\ detectedStage' = st.stage
  /\ stageContext' = st.context
  /\ technologies' = techs
  /\ IF IsErrorLine(lowerLine)
     THEN /\ errorLines' = Append(errorLines, line)
          /\ issues' = issues \o found
          /\ jobContext' = [jobContext EXCEPT
                              !.failureContext = RecordFailures(@, found)]
          /\ UNCHANGED << warningLines, infoLines >>
     ELSE IF IsWarningLine(lowerLine)
     THEN /\ warningLines' = Append(warningLines, line)
          /\ UNCHANGED << errorLines, infoLines, issues, jobContext >>
     ELSE IF IsInfoLine(lowerLine)
     THEN /\ infoLines' = Append(infoLines, line)
          /\ UNCHANGED << errorLines, warningLines, issues, jobContext >>
     ELSE UNCHANGED << errorLines, warningLines, infoLines, issues, jobContext >>

\* what one line yields: stage, technologies and the issues of its rules
ScanLower(line, lowerLine) ==
  ScanLine(line, lowerLine,
           DetectStage([stage |-> detectedStage, context |-> stageContext],
                       lowerLine, stagePatterns),
           DetectTechnologies(technologies, lowerLine, technologyKeywords),
           MatchLine(line, LineContext(lines, i), i, patterns))

ScanStep ==
  /\ pc = "scan"
  /\ i < Len(lines)
  /\ ScanLower(lines[i + 1], ToLowerCase(lines[i + 1]))
  /\ i' = i + 1
  /\ UNCHANGED << logs, lines, pc, report >>
  /\ UNCHANGED << history, serverVars, webVars >>


(***************************************************************************)
(* Post-processing                                                         *)
(***************************************************************************)
\* issues.some(i => i.issue.includes(word))
SomeIssueNamed(iss, word) == \E k \in DOMAIN iss : Includes(iss[k].issue, word)

\* issues.some(i => i.category === category)
SomeIssueOf(iss, category) == \E k \in DOMAIN iss : iss[k].category = category

RECURSIVE Dominant(_, _, _, _, _)
\* Object.entries(categoryCounts).forEach: a strictly larger count replaces
Dominant(iss, cats, k, dominantCategory, maxCount) ==
  IF k > Len(cats) THEN [dominantCategory |-> dominantCategory, maxCount |-> maxCount]
  ELSE LET count == Cardinality({ n \in DOMAIN iss : iss[n].category = cats[k] })
       IN  IF count > maxCount
           THEN Dominant(iss, cats, k + 1, cats[k], count)
           ELSE Dominant(iss, cats, k + 1, dominantCategory, maxCount)

ErrorVolumeThreshold == 20
DominantThreshold == 3

\* variant: the threshold itself counts as high volume
HighErrorVolumeAtLeast(errorCount) == errorCount >= ErrorVolumeThreshold

\* variant: no general recommendation
WithGeneralRecommendationNever(actions) == actions

\* "Add general recommendations if needed"
WithGeneralRecommendation(actions) ==
  PushIf(actions, Len(actions) = 0,
         "Review the detailed error logs for more specific troubleshooting guidance")

\* variant: the threshold itself makes a category dominant
IsDominantAtLeast(dominantCategory, maxCount) ==
  dominantCategory # "" /\ maxCount >= DominantThreshold

\* if (dominantCategory && maxCount > 3)
IsDominant(dominantCategory, maxCount) ==
  dominantCategory # "" /\ maxCount > DominantThreshold

\* the high-error-volume test of analyzeFinalJobContext
HighErrorVolume(errorCount) == errorCount > ErrorVolumeThreshold

analyzeFinalJobContext(jc, iss, techs, errorCount) ==
  LET fp1 == PushIf(<< >>, HighErrorVolume(errorCount),
                    "High error volume suggests systemic failure")
      cats == Unique([k \in DOMAIN iss |-> iss[k].category])
      dom == Dominant(iss, cats, 1, "", 0)
      fp2 == PushIf(fp1, IsDominant(dom.dominantCategory, dom.maxCount),
                    "Multiple " \o dom.dominantCategory \o " errors suggest a systemic "
                      \o dom.dominantCategory \o "-related issue")
      docker == "docker" \in Range(techs) /\ SomeIssueOf(iss, "docker")
      ra1 == PushIf(<< >>, docker /\ SomeIssueNamed(iss, "image not found"),
                    "Verify image names and registry paths in your Dockerfile and CI configuration")
      ra2 == PushIf(ra1, docker /\ SomeIssueNamed(iss, "permission"),
                    "Check Docker registry credentials and permissions in your CI/CD variables")
      k8s == "kubernetes" \in Range(techs) /\ SomeIssueOf(iss, "kubernetes")
      ra3 == PushIf(ra2, k8s /\ SomeIssueNamed(iss, "validation"),
                    "Run kubectl validate on your manifests before applying them")
      ra4 == PushIf(ra3, k8s /\ SomeIssueNamed(iss, "permission"),
                    "Review RBAC permissions for the service account used by your CI/CD pipeline")
      gcp == "gcp" \in Range(techs) /\ SomeIssueOf(iss, "gcp")
      ra5 == PushIf(ra4, gcp /\ SomeIssueNamed(iss, "permission"),
                    "Check IAM roles for your service account and ensure it has the necessary permissions")
      ra6 == PushIf(ra5, gcp /\ SomeIssueNamed(iss, "not found"),
                    "Verify GCP resource names and ensure they exist in the correct project and region")
      ra7 == WithGeneralRecommendation(ra6)
  IN  [failurePatterns |-> fp2, errorClusters |-> << >>, recommendedActions |-> ra7]

\* the score of the fallback for an error line, given its lower-cased form
ScoreOf(errorLine, lower) ==
    (IF Includes(lower, "error:") THEN 5 ELSE 0)
  + (IF Includes(lower, "exception") THEN 4 ELSE 0)
  + (IF Includes(lower, "failed") THEN 3 ELSE 0)
  + (IF Includes(lower, "fatal") THEN 3 ELSE 0)
  + (IF RegexTest(exitCodePattern, errorLine) THEN 5 ELSE 0)

ErrorScore(errorLine) == ScoreOf(errorLine, ToLowerCase(errorLine))

RECURSIVE BestErrorLine(_, _, _, _)
RECURSIVE KeepBest(_, _, _, _, _)
\* the for loop of the fallback: a strictly larger score replaces
BestErrorLine(errs, k, bestErrorLine, bestErrorScore) ==
  IF k > Len(errs) THEN bestErrorLine
  ELSE KeepBest(errs, k, bestErrorLine, bestErrorScore, ErrorScore(errs[k]))

\* variant: an equal score replaces too
KeepBestOrEqual(errs, k, bestErrorLine, bestErrorScore, score) ==
  IF score >= bestErrorScore
  THEN BestErrorLine(errs, k + 1, errs[k], score)
  ELSE BestErrorLine(errs, k + 1, bestErrorLine, bestErrorScore)

\* the body of the loop for line k with the given score
KeepBest(errs, k, bestErrorLine, bestErrorScore, score) ==
  IF score > bestErrorScore
  THEN BestErrorLine(errs, k + 1, errs[k], score)
  ELSE BestErrorLine(errs, k + 1, bestErrorLine, bestErrorScore)

\* variant: the fallback does not look at the matched issues
NeedsFallbackAlways(iss, errs) == Len(errs) > 0

\* the fallback applies when no rule matched although there are error lines
NeedsFallback(iss, errs) == Len(iss) = 0 /\ Len(errs) > 0

\* variant: the fallback issue has a category of its own
UnclassifiedIssueOwnCategory(errs, bestErrorLine) ==
  [category |-> "unclassified",
   issue |-> "Unclassified error detected",
   solution |-> "Review the error details and check your pipeline configuration",
   line |-> bestErrorLine,
   lineNumber |-> IndexOf(errs, bestErrorLine)]

\* the issue pushed by the fallback for the chosen line
UnclassifiedIssue(errs, bestErrorLine) ==
  [category |-> "general",
   issue |-> "Unclassified error detected",
   solution |-> "Review the error details and check your pipeline configuration",
   line |-> bestErrorLine,
   lineNumber |-> IndexOf(errs, bestErrorLine)]

FallbackIssue(errs) ==
  UnclassifiedIssue(errs, BestErrorLine(errs, 1, errs[Len(errs)], 0))

\* variant: no fallback issue
WithFallbackNever(iss, errs) == iss

\* issues after the smart-fallback block
WithFallback(iss, errs) ==
  IF NeedsFallback(iss, errs) THEN Append(iss, FallbackIssue(errs)) ELSE iss

generateSmartSolutions(iss, techs, dynamicAnalysis) ==
  LET s0 == [k \in DOMAIN iss |-> iss[k].solution]
      dockerIssues == SelectSeq(iss, LAMBDA x : x.category = "docker")
      k8sIssues == SelectSeq(iss, LAMBDA x : x.category = "kubernetes")
      gcpIssues == SelectSeq(iss, LAMBDA x : x.category = "gcp")
      s1 == PushIf(s0, SomeIssueNamed(dockerIssues, "authentication")
                         \/ SomeIssueNamed(dockerIssues, "unauthorized"),
                   "Verify Docker registry credentials are correctly configured in CI/CD secrets")
      s2 == PushIf(s1, SomeIssueNamed(k8sIssues, "validation"),
                   "Use a Kubernetes linter or validator to check manifests before applying")
      s3 == PushIf(s2, SomeIssueNamed(gcpIssues, "permission"),
                   "Run 'gcloud projects get-iam-policy' to audit permissions for your service account")
      s4 == s3 \o dynamicAnalysis.recommendedActions
      empty4 == Len(s4) = 0
      s5 == PushIf(s4, empty4 /\ "docker" \in Range(techs),
                   "Verify your Dockerfile syntax and build configuration")
      s6 == PushIf(s5, empty4 /\ "kubernetes" \in Range(techs),
                   "Check your Kubernetes manifests for syntax errors and ensure proper RBAC permissions")
      s7 == PushIf(s6, empty4 /\ "gcp" \in Range(techs),
                   "Ensure your GCP service account has sufficient permissions for the operations")
      s8 == PushIf(s7, empty4 /\ "terraform" \in Range(techs),
                   "Validate your Terraform configuration and check for state issues")
      s9 == IF Len(s8) = 0
            THEN << "Review the full logs to understand the specific error context",
                    "Check the job configuration in .gitlab-ci.yml for potential syntax or configuration issues" >>
            ELSE s8
  IN  Unique(s9)

categoryPriority(category) ==
  CASE category = "docker"     -> 7
    [] category = "kubernetes" -> 8
    [] category = "terraform"  -> 6
    [] category = "gcp"        -> 9
    [] category = "npm"        -> 5
    [] category = "python"     -> 5
    [] category = "java"       -> 5
    [] category = "general"    -> 3
    [] OTHER                   -> 0

\* variant: earlier lines first
CompareIssuesAscending(a, b) ==
  IF a.lineNumber # b.lineNumber
  THEN a.lineNumber - b.lineNumber
  ELSE categoryPriority(b.category) - categoryPriority(a.category)

\* the comparator of prioritizeIssues: negative when a sorts before b
CompareIssues(a, b) ==
  IF a.lineNumber # b.lineNumber
  THEN b.lineNumber - a.lineNumber
  ELSE categoryPriority(b.category) - categoryPriority(a.category)

\* insert x behind every element it does not strictly precede (stable)
InsertIssue(sorted, x) ==
  LET before == { k \in DOMAIN sorted : CompareIssues(x, sorted[k]) < 0 }
      at == IF before = {} THEN Len(sorted) + 1
            ELSE CHOOSE k \in before : \A j \in before : k <= j
  IN  SubSeq(sorted, 1, at - 1) \o << x >> \o SubSeq(sorted, at, Len(sorted))

RECURSIVE SortIssues(_)
SortIssues(iss) ==
  IF Len(iss) = 0 THEN << >>
  ELSE InsertIssue(SortIssues(SubSeq(iss, 1, Len(iss) - 1)), iss[Len(iss)])

\* [...issues].sort(comparator), a stable sort
prioritizeIssues(iss) == SortIssues(iss)

SomeIssueLine(iss, words) ==
  \E k \in DOMAIN iss : IncludesAny(iss[k].line, words)

\* the technology-specific pitfalls added in analyzeGitLabJobLogs
technologyPitfalls(iss, techs) ==
  LET gcp == "gcp" \in Range(techs)
      k8s == "kubernetes" \in Range(techs)
      p1 == PushIf(<< >>, gcp /\ \E k \in DOMAIN iss :
                                    iss[k].category = "gcp" /\ Includes(iss[k].issue, "permission"),
                   "GCP deployments often fail due to IAM permission issues - verify service account roles")
      p2 == PushIf(p1, gcp /\ SomeIssueLine(iss, << "API" >>),
                   "Ensure you've activated the required APIs in your GCP project")
      p3 == PushIf(p2, gcp /\ SomeIssueLine(iss, << "quota" >>),
                   "Check for quota limits that might be affecting your deployment")
      p4 == PushIf(p3, k8s /\ SomeIssueLine(iss, << "quota", "capacity" >>),
                   "Namespace restrictions or resource quotas could be limiting your deployment")
      p5 == PushIf(p4, k8s /\ SomeIssueLine(iss, << "version", "schema" >>),
                   "Verify that your Kubernetes manifests are compatible with the cluster version")
      p6 == PushIf(p5, k8s /\ SomeIssueLine(iss, << "webhook", "admission" >>),
                   "Custom admission controllers might be blocking certain configurations")
  IN  p6

\* the insights, given the lower-cased error lines
InsightsOf(iss, errs, lowers) ==
  LET a1 == PushIf(<< >>, \E k \in DOMAIN errs : IncludesAny(errs[k], << "timeout", "timed out" >>),
                   "Network or resource timeouts detected - check operation timeout settings or network connectivity")
      a2 == PushIf(a1, \E k \in DOMAIN errs : /\ Includes(lowers[k], "memory")
                                              /\ IncludesAny(errs[k], << "out", "insufficient" >>),
                   "Memory resource constraints detected - consider increasing memory limits for your job")
      a3 == PushIf(a2, \E k \in DOMAIN errs : RegexTest(nonZeroExitPattern, errs[k]),
                   "Non-zero exit codes indicate command failures - check command syntax and error handling")
      a4 == PushIf(a3, \E k \in DOMAIN iss :
                          IncludesAny(ToLowerCase(iss[k].line), << "permission", "access denied" >>),
                   "Permission issues detected - verify access rights across all resources used in the pipeline")
      a5 == PushIf(a4, \E k \in DOMAIN errs : /\ Includes(lowers[k], "version")
                                              /\ Includes(lowers[k], "compatibility"),
                   "Version compatibility issues detected - check for conflicting dependency versions or API version mismatches")
  IN  Unique(a5)

generateAdditionalInsights(iss, techs, errs) ==
  InsightsOf(iss, errs, [k \in DOMAIN errs |-> ToLowerCase(errs[k])])

ErrorSampleCap == 10
WarningSampleCap == 10
RootCauseCap == 3
TopIssueCap == 5

\* error_count of the report
ErrorCount(errs) == Len(errs)

\* variant: a single error line does not fail the job
JobStatusFromTwo(errs) == IF Len(errs) > 1 THEN "Failed" ELSE "Successful"

\* job_status of the report
JobStatus(errs) == IF Len(errs) > 0 THEN "Failed" ELSE "Successful"

\* the first entries of the prioritized issues, as category and issue
RootCauses(top3) == [k \in DOMAIN top3 |-> [category |-> top3[k].category, issue |-> top3[k].issue]]

\* the same entries as "category: issue"
RootCauseTexts(top3) == [k \in DOMAIN top3 |-> top3[k].category \o ": " \o top3[k].issue]

\* lines 548-634: contextualInsights and the returned object
ReturnValue(jc, errs, warns, infos, iss, techs, stage, stageCtx, dynamicAnalysis, solutions, prioritizedIssues) ==
  [returned |-> TRUE,
   error_count |-> ErrorCount(errs),
   warning_count |-> Len(warns),
   info_count |-> Len(infos),
   errors |-> Slice(errs, ErrorSampleCap),
   warnings |-> Slice(warns, WarningSampleCap),
   root_causes |-> RootCauseTexts(Slice(prioritizedIssues, RootCauseCap)),
   identified_issues |-> Slice(prioritizedIssues, TopIssueCap),
   suggestions |-> solutions,
   job_status |-> JobStatus(errs),
   contextual_analysis |->
     [failureStage |-> stage,
      stageContext |-> stageCtx,
      technologiesDetected |-> techs,
      potentialRootCauses |-> RootCauses(Slice(prioritizedIssues, RootCauseCap)),
      commonPitfalls |-> technologyPitfalls(iss, techs)
                           \o generateAdditionalInsights(iss, techs, errs),
      failurePatterns |-> dynamicAnalysis.failurePatterns,
      recommendedActions |-> dynamicAnalysis.recommendedActions],
   job_metadata |-> [start_time |-> jc.jobStartTime,
                     end_time |-> jc.jobEndTime,
                     git_ref |-> jc.gitRef,
                     git_sha |-> jc.gitSha,
                     runners |-> jc.runners,
                     stages |-> jc.stages],
   dynamic_insights |-> dynamicAnalysis]

\* variant: the solutions are those of the issues the report lists
SummarizeTopIssues(jc, errs, warns, infos, iss, techs, stage, stageCtx, dynamicAnalysis) ==
  ReturnValue(jc, errs, warns, infos, iss, techs, stage, stageCtx, dynamicAnalysis,
              generateSmartSolutions(Slice(prioritizeIssues(iss), TopIssueCap), techs,
                                     dynamicAnalysis),
              prioritizeIssues(iss))

\* lines 541-545: solutions and priorities of the final issues
Summarize(jc, errs, warns, infos, iss, techs, stage, stageCtx, dynamicAnalysis) ==
  ReturnValue(jc, errs, warns, infos, iss, techs, stage, stageCtx, dynamicAnalysis,
              generateSmartSolutions(iss, techs, dynamicAnalysis), prioritizeIssues(iss))

\* lines 509-634: everything after the second loop, up to the returned object
BuildReport(jc, errs, warns, infos, iss0, techs, stage, stageCtx) ==
  Summarize(jc, errs, warns, infos, WithFallback(iss0, errs), techs, stage, stageCtx,
            analyzeFinalJobContext(jc, iss0, techs, Len(errs)))

\* end of the second loop: post-processing and return
Finish ==
  /\ pc = "scan"
  /\ i >= Len(lines)
  /\ issues' = WithFallback(issues, errorLines)
  /\ report' = BuildReport(jobContext, errorLines, warningLines, infoLines, issues,
                           technologies, detectedStage, stageContext)
  /\ pc' = "done"
  /\ UNCHANGED << logs, lines, i, jobContext, errorLines, warningLines, infoLines,
                  technologies, detectedStage, stageContext >>
  /\ UNCHANGED << history, serverVars, webVars >>

Next == ContextStep \/ BeginScan \/ ScanStep \/ Finish

Spec == Init /\ [][Next]_vars

SpecVolume == InitVolume /\ [][Next]_vars

SpecEdge == InitEdge /\ [][Next]_vars

SpecMeta == InitMeta /\ [][Next]_vars

SpecRepeat == InitRepeat /\ [][Next]_vars

SpecAdvice == InitAdvice /\ [][Next]_vars

(***************************************************************************)
(* Successive calls of analyzeGitLabJobLogs                                *)
(***************************************************************************)
MaxCalls == 3

\* the logs of successive calls
CallInputs ==
  { "", "failed", "ERROR: docker permission denied", "section_start:17:build\nBuilding" }

\* variant: the technology set is shared by all calls
StartCallSharedTechnologies(text) ==
  /\ logs' = text
  /\ lines' = SplitLines(text)
  /\ pc' = "context"
  /\ i' = 0
  /\ jobContext' = initialJobContext
  /\ errorLines' = << >>
  /\ warningLines' = << >>
  /\ infoLines' = << >>
  /\ issues' = << >>
  /\ UNCHANGED technologies
  /\ detectedStage' = "unknown"
  /\ stageContext' = ""
  /\ report' = NoReport

\* the declarations of the function body, made anew by every call
StartCall(text) ==
  /\ logs' = text
  /\ lines' = SplitLines(text)
  /\ pc' = "context"
  /\ i' = 0
  /\ jobContext' = initialJobContext
  /\ errorLines' = << >>
  /\ warningLines' = << >>
  /\ infoLines' = << >>
  /\ issues' = << >>
  /\ technologies' = << >>
  /\ detectedStage' = "unknown"
  /\ stageContext' = ""
  /\ report' = NoReport

\* the next call, after the previous one has returned
NextCall ==
  /\ pc = "done"
  /\ Len(history) + 1 < MaxCalls
  /\ history' = Append(history, [logs |-> logs, report |-> report])
  /\ \E text \in CallInputs : StartCall(text)
  /\ UNCHANGED << serverVars, webVars >>

InitCalls == InitServer /\ \E text \in CallInputs : InitCall(text)

NextCalls == ContextStep \/ BeginScan \/ ScanStep \/ Finish \/ NextCall

SpecCalls == InitCalls /\ [][NextCalls]_vars

(***************************************************************************)
(* The session store: creation, getSessionAndUpdate and the cleanup        *)
(* interval.  Time is counted in minutes.                                  *)
(***************************************************************************)
MaxTime == 33

\* uuidv4 values
SessionIds == { "s1", "s2" }

\* no call of analyzeGitLabJobLogs is running
IdleCall ==
  /\ logs = ""
  /\ lines = << >>
  /\ pc = "idle"
  /\ i = 0
  /\ jobContext = initialJobContext
  /\ errorLines = << >>
  /\ warningLines = << >>
  /\ infoLines = << >>
  /\ issues = << >>
  /\ technologies = << >>
  /\ detectedStage = "unknown"
  /\ stageContext = ""
  /\ report = NoReport

InitSessions == InitServer /\ IdleCall

\* variant: a session idle for exactly the timeout is removed
OverdueAtTimeout(session) == session.lastAccessed <= now - SessionTimeoutMinutes

\* session.lastAccessed < thirtyMinutesAgo
Overdue(session) == session.lastAccessed < now - SessionTimeoutMinutes

\* POST /api/session
CreateSession ==
  /\ now + SessionTimeoutMinutes < MaxTime
  /\ \E id \in SessionIds \ DOMAIN sessions :
       sessions' = sessions @@ (id :> [id |-> id, created |-> now, lastAccessed |-> now, data |-> {}])
  /\ UNCHANGED << now, nextCleanup, lookup, callVars, history, webVars >>

\* getSessionAndUpdate(sessionId)
getSessionAndUpdate(sessionId) ==
  /\ IF sessionId \notin DOMAIN sessions
     THEN /\ lookup' = [id |-> sessionId, found |-> FALSE]
          /\ UNCHANGED sessions
     ELSE /\ now + SessionTimeoutMinutes < MaxTime \/ Overdue(sessions[sessionId])
          /\ sessions' = [sessions EXCEPT ![sessionId].lastAccessed = now]
          /\ lookup' = [id |-> sessionId, found |-> TRUE]
  /\ UNCHANGED << now, nextCleanup, callVars, history, webVars >>

\* a request that names a session
Lookup == \E sessionId \in SessionIds : getSessionAndUpdate(sessionId)

\* the setInterval callback
CleanupTick ==
  /\ now >= nextCleanup
  /\ sessions' = [id \in { x \in DOMAIN sessions : ~Overdue(sessions[x]) } |-> sessions[id]]
  /\ nextCleanup' = nextCleanup + CleanupIntervalMinutes
  /\ UNCHANGED << now, lookup, callVars, history, webVars >>

\* a minute passes; a due cleanup runs first
Advance ==
  /\ now < MaxTime
  /\ now < nextCleanup
  /\ now' = now + 1
  /\ UNCHANGED << sessions, nextCleanup, lookup, callVars, history, webVars >>

NextSessions == CreateSession \/ Lookup \/ CleanupTick \/ Advance

\* the clock runs and the interval timer fires
SpecSessions ==
  InitSessions /\ [][NextSessions]_vars /\ WF_vars(Advance) /\ WF_vars(CleanupTick)


(***************************************************************************)
(* The ADK webhook, the SSE endpoint and the event emitter.  A handler runs *)
(* without interruption up to its first pending await: the webhook of a    *)
(* tool that waits for an HTTP call is two steps, every other one is one.  *)
(***************************************************************************)
\* uuidv4() of the session created for request r
NewSessionId(r) == "w" \o ToString(r)

\* the ids a request can name
NameableIds == { "s1" } \cup { NewSessionId(r) : r \in RequestIds }

\* the tool names of the requests: one handler without a pending await, one
\* that waits for an HTTP call, and a name the switch does not know
ToolNames == { "session_data", "api_call", "no_such_tool" }

\* req.body: parameters may be missing, and so may parameters.mcp_session_id
Bodies ==
  { b \in [parameters : BOOLEAN, mcp_session_id : { "" } \cup NameableIds, tool_name : ToolNames] :
      ~b.parameters => b.mcp_session_id = "" }

\* session.lastAccessed = new Date(); sessions.set(sessionId, session)
Touch(store, sessionId) == [store EXCEPT ![sessionId].lastAccessed = now]

\* createNewSession() for request r
createNewSession(store, r) ==
  [store |-> (NewSessionId(r) :>
                [id |-> NewSessionId(r), created |-> now, lastAccessed |-> now, data |-> {}])
               @@ store,
   mcpSessionId |-> NewSessionId(r),
   created |-> 1]

\* variant: an id the store lacks is used as it was given
ResolveSessionTrusting(store, body, r) ==
  IF body.parameters /\ body.mcp_session_id # ""
  THEN [store |-> IF body.mcp_session_id \in DOMAIN store
                  THEN Touch(store, body.mcp_session_id) ELSE store,
        mcpSessionId |-> body.mcp_session_id,
        created |-> 0]
  ELSE createNewSession(store, r)

\* the session resolution of the webhook: the store afterwards, the resolved
\* id and the number of sessions created
ResolveSession(store, body, r) ==
  IF body.parameters /\ body.mcp_session_id # ""
  THEN IF body.mcp_session_id \in DOMAIN store
       THEN [store |-> Touch(store, body.mcp_session_id),
             mcpSessionId |-> body.mcp_session_id,
             created |-> 0]
       ELSE createNewSession(store, r)
  ELSE createNewSession(store, r)

\* the handler reads a property of parameters, which is undefined
Throws(body) == ~body.parameters /\ body.tool_name # "no_such_tool"

\* handleSessionDataTool with action 'set': the session is touched and the
\* data of the request is stored in it
handleSessionDataTool(store, sessionId, r) ==
  IF sessionId \in DOMAIN store
  THEN [Touch(store, sessionId) EXCEPT ![sessionId].data = @ \cup { r }]
  ELSE store

\* the store after the handler of the tool has run
Dispatch(store, body, sessionId, r) ==
  IF body.tool_name = "session_data"
  THEN handleSessionDataTool(store, sessionId, r)
  ELSE store

\* the object passed to eventEmitter.emit, and which connections are open
ToolEvent(sessionId, r) ==
  [sessionId |-> sessionId, type |-> "tool-execution", request |-> r,
   open |-> { c \in ConnectionIds : connections[c].stage = "open" }]

\* variant: the listener writes every event
ListenerUnfiltered(conn, eventData) == [conn EXCEPT !.written = Append(@, eventData)]

\* the listener of a connection: it writes the events of its session
Listener(conn, eventData) ==
  IF eventData.sessionId = conn.sessionId
  THEN [conn EXCEPT !.written = Append(@, eventData)]
  ELSE conn

RECURSIVE Deliver(_, _, _)
\* eventEmitter.emit: the listeners are called in registration order
Deliver(conns, ls, eventData) ==
  IF ls = << >> THEN conns
  ELSE Deliver([conns EXCEPT ![Head(ls)] = Listener(@, eventData)], Tail(ls), eventData)

\* emitEvent(sessionId, 'tool-execution', ...)
emitEvent(eventData) ==
  /\ emitted' = Append(emitted, eventData)
  /\ connections' = Deliver(connections, listeners, eventData)

\* res.status(...).json(...) of request r
Respond(req, res, status, store) ==
  [req EXCEPT !.stage = "responded", !.mcpSessionId = res.mcpSessionId,
              !.created = res.created, !.status = status,
              !.storeAtResponse = DOMAIN store]

\* the webhook up to its first pending await, for request r with the given
\* body and the result res of its session resolution
WebhookStart(r, body, res) ==
  IF Throws(body)
  THEN /\ sessions' = res.store
       /\ requests' = [requests EXCEPT
                         ![r] = Respond([@ EXCEPT !.body = body], res, 500, res.store)]
       /\ UNCHANGED << connections, emitted >>
  ELSE IF body.tool_name = "api_call"
  THEN /\ sessions' = res.store
       /\ requests' = [requests EXCEPT
                         ![r] = [@ EXCEPT !.stage = "awaiting", !.body = body,
                                          !.mcpSessionId = res.mcpSessionId,
                                          !.created = res.created]]
       /\ UNCHANGED << connections, emitted >>
  ELSE /\ sessions' = Dispatch(res.store, body, res.mcpSessionId, r)
       /\ emitEvent(ToolEvent(res.mcpSessionId, r))
       /\ requests' = [requests EXCEPT
                         ![r] = Respond([@ EXCEPT !.body = body], res, 200,
                                        Dispatch(res.store, body, res.mcpSessionId, r))]

\* requests arrive in the first minutes or once a timeout has passed since
\* then (this bounds the clock values of the stored sessions)
ArrivalTime == now + SessionTimeoutMinutes < MaxTime \/ now > SessionTimeoutMinutes

\* POST /api/adk-webhook
WebhookRequest ==
  \E r \in RequestIds : \E body \in Bodies :
    /\ requests[r].stage = "new"
    /\ ArrivalTime
    /\ WebhookStart(r, body, ResolveSession(sessions, body, r))
    /\ UNCHANGED << now, nextCleanup, lookup, listeners, callVars, history >>

\* the HTTP call of the tool has ended: the event is emitted and the
\* response sent
WebhookComplete ==
  \E r \in RequestIds :
    /\ requests[r].stage = "awaiting"
    /\ emitEvent(ToolEvent(requests[r].mcpSessionId, r))
    /\ requests' = [requests EXCEPT
                      ![r] = [@ EXCEPT !.stage = "responded", !.status = 200,
                                       !.storeAtResponse = DOMAIN sessions]]
    /\ UNCHANGED << sessions, now, nextCleanup, lookup, listeners, callVars, history >>

\* the 'connection established' message of a new SSE connection
ConnectionEvent(sessionId) ==
  [sessionId |-> sessionId, type |-> "connection", request |-> 0, open |-> {}]

\* GET /api/sse/:sessionId
SseConnect ==
  \E c \in ConnectionIds : \E sessionId \in NameableIds :
    /\ connections[c].stage = "none"
    /\ ArrivalTime
    /\ IF sessionId \in DOMAIN sessions
       THEN /\ sessions' = Touch(sessions, sessionId)
            /\ connections' = [connections EXCEPT
                                 ![c] = [stage |-> "open", sessionId |-> sessionId,
                                         written |-> << ConnectionEvent(sessionId) >>]]
            /\ listeners' = Append(listeners, c)
       ELSE /\ connections' = [connections EXCEPT
                                 ![c] = [stage |-> "rejected", sessionId |-> sessionId,
                                         written |-> << >>]]
            /\ UNCHANGED << sessions, listeners >>
    /\ UNCHANGED << now, nextCleanup, lookup, requests, emitted, callVars, history >>

\* req.on('close'): the listener of the connection is removed
SseClose ==
  \E c \in ConnectionIds :
    /\ connections[c].stage = "open"
    /\ listeners' = SelectSeq(listeners, LAMBDA l : l # c)
    /\ connections' = [connections EXCEPT ![c].stage = "closed"]
    /\ UNCHANGED << sessions, now, nextCleanup, lookup, requests, emitted, callVars, history >>

\* webhook requests while the clock runs and the cleanup fires
NextWebhook == WebhookRequest \/ WebhookComplete \/ CleanupTick \/ Advance

SpecWebhook == InitSessions /\ [][NextWebhook]_vars

\* webhook requests, SSE connects and disconnects in any order
NextSse == WebhookRequest \/ WebhookComplete \/ SseConnect \/ SseClose

SpecSse == InitSessions /\ [][NextSse]_vars

(***************************************************************************)
(* Properties                                                              *)
(***************************************************************************)
\* the lower-cased line contains one of the five error-severity keywords
HasErrorKeyword(line) ==
  \E w \in { "error", "exception", "failed", "fatal", "panic" } :
    Includes(ToLowerCase(line), w)

\* some pattern of the rule catalog matches the line
AnyRuleMatches(line) ==
  \E c \in DOMAIN patterns : \E r \in DOMAIN patterns[c].errors :
    RegexTest(patterns[c].errors[r].pattern, line)

\* some error line of the log matches a pattern of the rule catalog
ErrorLineMatched ==
  \E k \in DOMAIN lines : HasErrorKeyword(lines[k]) /\ AnyRuleMatches(lines[k])

Unclassified == "Unclassified error detected"

\* C1: the report's error_count is the number of lines of the log whose
\* lower-cased text contains an error keyword, whatever was matched and
\* whether or not the fallback issue was synthesized.
C1_ErrorCount ==
  report.returned =>
    report.error_count = Cardinality({ k \in DOMAIN lines : HasErrorKeyword(lines[k]) })

C1_Witness ==
  /\ report.returned
  /\ report.error_count = 2
  /\ Len(lines) = 3
  /\ Len(issues) = 1 /\ issues[1].issue = Unclassified

\* C2: job_status is 'Failed' exactly when error_count > 0 and 'Successful'
\* otherwise, independent of issues, warnings and technologies.
C2_JobStatus ==
  report.returned =>
    /\ report.job_status = "Failed" <=> report.error_count > 0
    /\ report.job_status = "Successful" <=> report.error_count = 0

C2_Witness ==
  /\ report.returned
  /\ report.job_status = "Successful"
  /\ report.warning_count > 0
  /\ report.contextual_analysis.technologiesDetected # << >>
  /\ \E k \in DOMAIN lines : AnyRuleMatches(lines[k])

\* C3: with error lines none of which matches a catalog pattern,
\* identified_issues is exactly the one general 'Unclassified error detected'
\* entry; when an error line matched a pattern there is no such entry.
C3_Fallback ==
  report.returned =>
    /\ (report.error_count > 0 /\ ~ErrorLineMatched) =>
         /\ Len(report.identified_issues) = 1
         /\ report.identified_issues[1].category = "general"
         /\ report.identified_issues[1].issue = Unclassified
    /\ ErrorLineMatched =>
         /\ \A k \in DOMAIN report.identified_issues :
              report.identified_issues[k].issue # Unclassified
         /\ \A k \in DOMAIN issues : issues[k].issue # Unclassified

C3_Witness ==
  /\ report.returned
  /\ report.error_count > 0
  /\ ~ErrorLineMatched
  /\ \E k \in DOMAIN lines : ~HasErrorKeyword(lines[k]) /\ AnyRuleMatches(lines[k])
  /\ Len(report.identified_issues) = 1
  /\ report.identified_issues[1].issue = Unclassified

\* C4: when error_count > 0 the report has at least one identified issue and
\* at least one root cause.
C4_Actionable ==
  (report.returned /\ report.error_count > 0) =>
    /\ Len(report.identified_issues) >= 1
    /\ Len(report.root_causes) >= 1

C4_Witness ==
  /\ report.returned
  /\ report.error_count = 1
  /\ ~ErrorLineMatched
  /\ Len(report.root_causes) = 1
  /\ report.root_causes[1] = "general: Unclassified error detected"

GenericAction == "Review the detailed error logs for more specific troubleshooting guidance"

EmptyMetadata ==
  [start_time |-> "", end_time |-> "", git_ref |-> "", git_sha |-> "",
   runners |-> << >>, stages |-> << >>]

C6_NoDuplicateSuggestions ==
  report.returned =>
    \A a, b \in DOMAIN report.suggestions :
      a # b => report.suggestions[a] # report.suggestions[b]

C6_Witness ==
  /\ report.returned
  /\ \E a, b \in DOMAIN issues : a # b /\ issues[a].solution = issues[b].solution
  /\ Len(report.suggestions) < Len(issues)


\* the technologies with a keyword in the lower-cased line
TechsOfLine(line) ==
  { technologyKeywords[k].tech :
      k \in { n \in DOMAIN technologyKeywords :
                \E w \in DOMAIN technologyKeywords[n].words :
                  Includes(ToLowerCase(line), technologyKeywords[n].words[w]) } }

\* the technologies with a keyword in one of the first n lines
TechsOfPrefix(n) == UNION { TechsOfLine(lines[k]) : k \in 1..n }

\* C7: the technology set only grows during the scan; after line i it holds
\* the technologies of the first i lines, and technologiesDetected lists,
\* once each, the technologies whose keyword occurs in some line.
C7_TechnologiesGrow ==
  /\ [][Range(technologies) \subseteq Range(technologies')]_vars
  /\ [](pc = "scan" => Range(technologies) = TechsOfPrefix(i))
  /\ [](report.returned =>
          LET detected == report.contextual_analysis.technologiesDetected
          IN  /\ Range(detected) = TechsOfPrefix(Len(lines))
              /\ Len(detected) = Cardinality(Range(detected)))

C7_Witness ==
  /\ pc = "scan"
  /\ i = 3
  /\ TechsOfLine(lines[1]) = { "docker" }
  /\ TechsOfLine(lines[2]) = { "kubernetes" }
  /\ TechsOfLine(lines[3]) = { }
  /\ technologies = << "docker", "kubernetes" >>

\* the stage rules matching the lower-cased line
StageRulesMatching(line) ==
  { k \in DOMAIN stagePatterns : RegexTest(stagePatterns[k].pattern, ToLowerCase(line)) }

SetMax(S) == CHOOSE x \in S : \A y \in S : y <= x

\* the stage of the last rule matching the last stage line among the first n
ExpectedStage(n) ==
  LET stageLines == { k \in 1..n : StageRulesMatching(lines[k]) # {} }
  IN  IF stageLines = {} THEN "unknown"
      ELSE stagePatterns[SetMax(StageRulesMatching(lines[SetMax(stageLines)]))].stage

\* C8: the detected stage is that of the last rule, in list order, matching
\* the last line that matches a stage rule, 'unknown' without such a line;
\* build, test, deploy lines in this order give 'deploy'.
C8_StageLastMatch ==
  /\ pc = "scan" => detectedStage = ExpectedStage(i)
  /\ report.returned =>
       /\ report.contextual_analysis.failureStage = ExpectedStage(Len(lines))
       /\ lines = << "Building", "Testing build step", "WARNING: deployment is slow" >>
            => report.contextual_analysis.failureStage = "deploy"

C8_Witness ==
  /\ report.returned
  /\ Len(lines) = 3
  /\ StageRulesMatching(lines[1]) = { 3 }
  /\ StageRulesMatching(lines[2]) = { 1, 2 }
  /\ StageRulesMatching(lines[3]) = { }
  /\ report.contextual_analysis.failureStage = "test"

\* C9: an error line matching image.*not\s*found gives a docker 'Docker
\* image not found' issue whether or not the word docker occurs; the scenario
\* log has error_count 2, no technology, that issue, and status 'Failed'.
C9_DockerIssueWithoutKeyword ==
  report.returned =>
    /\ \A k \in DOMAIN lines :
         (HasErrorKeyword(lines[k]) /\ RegexTest(dockerErrors[1].pattern, lines[k])) =>
           \E n \in DOMAIN issues :
             /\ issues[n].category = "docker"
             /\ issues[n].issue = "Docker image not found"
             /\ issues[n].line = lines[k]
    /\ logs = ScenarioLog =>
         /\ report.error_count = 2
         /\ report.contextual_analysis.technologiesDetected = << >>
         /\ \E n \in DOMAIN report.identified_issues :
              /\ report.identified_issues[n].category = "docker"
              /\ report.identified_issues[n].issue = "Docker image not found"
         /\ report.job_status = "Failed"

C9_Witness ==
  /\ report.returned
  /\ logs = ScenarioLog
  /\ Len(lines) = 5
  /\ \A k \in DOMAIN lines : ~Includes(ToLowerCase(lines[k]), "docker")
  /\ report.root_causes = << "docker: Docker image not found" >>

HighVolumeNotice == "High error volume suggests systemic failure"

\* C10: failurePatterns holds the high-error-volume notice exactly when
\* error_count > 20, whether or not an error line matched a rule.
C10_HighErrorVolume ==
  report.returned =>
    (HighVolumeNotice \in Range(report.dynamic_insights.failurePatterns)
       <=> report.error_count > 20)

C10_Witness ==
  /\ report.returned
  /\ report.error_count = 21
  /\ ~ErrorLineMatched
  /\ HighVolumeNotice \in Range(report.dynamic_insights.failurePatterns)

\* the lower-cased line has a warning keyword and no error keyword
HasWarningOnly(line) ==
  /\ ~HasErrorKeyword(line)
  /\ \E w \in { "warning", "warn" } : Includes(ToLowerCase(line), w)

SetMin(S) == CHOOSE x \in S : \A y \in S : x <= y

\* the first min(n, Len(seq)) entries of seq
FirstUpTo(seq, n) == SubSeq(seq, 1, SetMin({ n, Len(seq) }))

\* C11: errors is the first min(10, error_count) error lines in log order,
\* warnings the first min(10, warning_count) warning lines, identified_issues
\* the first min(5, n) entries of the prioritized issue list, and root_causes
\* the 'category: issue' strings of the first min(3, n) of those, in order.
C11_CapsAndPrefixes ==
  report.returned =>
    /\ report.errors = FirstUpTo(SelectSeq(lines, HasErrorKeyword), 10)
    /\ Len(report.errors) = SetMin({ 10, report.error_count })
    /\ report.warnings = FirstUpTo(SelectSeq(lines, HasWarningOnly), 10)
    /\ Len(report.warnings) = SetMin({ 10, report.warning_count })
    /\ report.identified_issues = FirstUpTo(prioritizeIssues(issues), 5)
    /\ Len(report.root_causes) = SetMin({ 3, Len(issues) })
    /\ \A k \in DOMAIN report.root_causes :
         report.root_causes[k] = report.identified_issues[k].category \o ": "
                                   \o report.identified_issues[k].issue

C11_Witness ==
  /\ report.returned
  /\ report.error_count = 11 /\ Len(report.errors) = 10
  /\ report.warning_count = 11 /\ Len(report.warnings) = 10
  /\ Len(issues) = 22 /\ Len(report.identified_issues) = 5
  /\ Len(report.root_causes) = 3

\* the keys of the rule catalog, as the claim lists them
CatalogKeys ==
  { "docker", "kubernetes", "terraform", "gcp", "npm", "python", "java", "general" }

\* C12: every issue in identified_issues, root_causes or potentialRootCauses,
\* the fallback issue included, has a category that is a key of the rule
\* catalog.
C12_CategoriesInCatalog ==
  report.returned =>
    /\ CatalogKeys = { patterns[c].category : c \in DOMAIN patterns }
    /\ \A k \in DOMAIN report.identified_issues :
         report.identified_issues[k].category \in CatalogKeys
    /\ \A k \in DOMAIN report.contextual_analysis.potentialRootCauses :
         report.contextual_analysis.potentialRootCauses[k].category \in CatalogKeys
    /\ \A k \in DOMAIN report.root_causes :
         \E c \in CatalogKeys : StartsAt(report.root_causes[k], 0, c \o ": ")

C12_Witness ==
  /\ report.returned
  /\ Len(report.identified_issues) = 1
  /\ report.identified_issues[1].issue = Unclassified
  /\ report.identified_issues[1].category = "general"
  /\ report.contextual_analysis.potentialRootCauses =
       << [category |-> "general", issue |-> Unclassified] >>

\* the line has a section_start marker
HasStageMarker(line) == Match(stagePattern, line) # NoMatch

\* the stage name of the line's section_start marker
MarkerStage(line) == Capture(line, Match(stagePattern, line), 4, 4)

\* the lines among the first n that have a marker
MarkerLines(n) == { k \in 1..n : HasStageMarker(lines[k]) }

\* the first of the first n lines whose marker names the stage
FirstMarkerOf(name, n) == SetMin({ k \in MarkerLines(n) : MarkerStage(lines[k]) = name })

\* stages has no duplicates and lists the stage names of the markers of
\* the first n lines in the order of their first occurrence
StagesOfPrefix(stages, n) ==
  /\ \A a, b \in DOMAIN stages : a # b => stages[a] # stages[b]
  /\ Range(stages) = { MarkerStage(lines[k]) : k \in MarkerLines(n) }
  /\ \A a, b \in DOMAIN stages :
       a < b => FirstMarkerOf(stages[a], n) < FirstMarkerOf(stages[b], n)

\* C13: at every point of the job-context scan, and in job_metadata.stages,
\* the stage list has no duplicates and lists the distinct section_start
\* stage names in the order of their first occurrence in the log.
C13_StagesDistinctInOrder ==
  /\ pc = "context" => StagesOfPrefix(jobContext.stages, i)
  /\ pc # "context" => StagesOfPrefix(jobContext.stages, Len(lines))
  /\ report.returned => StagesOfPrefix(report.job_metadata.stages, Len(lines))

C13_Witness ==
  /\ report.returned
  /\ lines = << "section_start:18:test", "section_start:17:build", "section_start:18:test" >>
  /\ report.job_metadata.stages = << "test", "build" >>

\* C14: the report depends only on the log of the call: it equals the
\* report of every earlier call on the same log, whatever was analysed
\* before or in between, and a call starts from empty accumulators.
C14_ReportDependsOnLogOnly ==
  /\ report.returned =>
       \A k \in DOMAIN history : history[k].logs = logs => history[k].report = report
  /\ \A a, b \in DOMAIN history : history[a].logs = history[b].logs
                                    => history[a].report = history[b].report
  /\ (pc = "context" /\ i = 0) =>
       /\ technologies = << >> /\ issues = << >> /\ jobContext = initialJobContext
       /\ errorLines = << >> /\ warningLines = << >> /\ infoLines = << >>
       /\ detectedStage = "unknown"

C14_Witness ==
  /\ report.returned
  /\ Len(history) = 2
  /\ history[1].logs = "section_start:17:build\nBuilding"
  /\ history[2].logs = "ERROR: docker permission denied"
  /\ logs = history[1].logs
  /\ report = history[1].report
  /\ report # history[2].report
  /\ report.contextual_analysis.technologiesDetected = << >>

\* C15: the cleanup removes a session only if its lastAccessed is more
\* than 30 minutes in the past, and nothing else removes one, so a session
\* touched within the last 30 minutes is never removed; a lookup of a stored
\* id succeeds and sets lastAccessed to the current time; a lookup of an id
\* that is not stored (never created, or removed as expired) returns null
\* and creates nothing; a session that is not touched again is eventually
\* removed by a cleanup tick.
C15_SlidingExpiration ==
  /\ [][\A id \in DOMAIN sessions :
          id \notin DOMAIN sessions' =>
            /\ now - sessions[id].lastAccessed > 30
            /\ nextCleanup' # nextCleanup]_vars
  /\ [][\A id \in SessionIds :
          getSessionAndUpdate(id) =>
            IF id \in DOMAIN sessions
            THEN /\ lookup'.found
                 /\ sessions'[id].lastAccessed = now
                 /\ DOMAIN sessions' = DOMAIN sessions
            ELSE /\ ~lookup'.found
                 /\ sessions' = sessions]_vars
  /\ \A id \in SessionIds : \A t \in 0..(MaxTime - 31) :
       (id \in DOMAIN sessions /\ sessions[id].lastAccessed = t)
         ~> (id \notin DOMAIN sessions \/ sessions[id].lastAccessed > t)

C15_Witness ==
  /\ now = 32 /\ nextCleanup = 33
  /\ DOMAIN sessions = { "s1" }
  /\ sessions["s1"].created = 0
  /\ sessions["s1"].lastAccessed = 2
  /\ lookup = [id |-> "s2", found |-> FALSE]

\* the lines the second loop has processed
Scanned == SubSeq(lines, 1, IF pc = "scan" THEN i ELSE IF pc = "done" THEN Len(lines) ELSE 0)

\* C16: every processed line is counted in at most one of the three lists:
\* a line with an error keyword only as an error, also when it contains
\* 'warning' or 'info'; a line with 'warn' and no error keyword only as a
\* warning; so the three counts together never exceed the number of lines.
C16_SeverityExclusive ==
  /\ errorLines = SelectSeq(Scanned, HasErrorKeyword)
  /\ warningLines = SelectSeq(Scanned, HasWarningOnly)
  /\ \A k \in DOMAIN infoLines :
       ~HasErrorKeyword(infoLines[k]) /\ ~HasWarningOnly(infoLines[k])
  /\ Len(errorLines) + Len(warningLines) + Len(infoLines) <= Len(Scanned)
  /\ report.returned =>
       report.error_count + report.warning_count + report.info_count <= Len(lines)

C16_Witness ==
  /\ report.returned
  /\ lines = << "error in warning info", "warn: info quota exceeded", "info: done" >>
  /\ report.error_count = 1 /\ report.warning_count = 1 /\ report.info_count = 1
  /\ errorLines = << "error in warning info" >>
  /\ warningLines = << "warn: info quota exceeded" >>

\* the rules of category c matching the line
RulesMatching(c, line) ==
  { r \in DOMAIN patterns[c].errors : RegexTest(patterns[c].errors[r].pattern, line) }

\* the issues recorded for the line at 0-based index n in category c
IssuesAt(n, c) ==
  { k \in DOMAIN issues : issues[k].lineNumber = n /\ issues[k].category = patterns[c].category }

\* C17: during the scan, for every processed error line and every category
\* there is exactly one issue when a pattern of the category matches, that
\* of the first matching pattern, and none otherwise; so one line yields an
\* issue per matching category (docker and general for 'permission denied')
\* and between 0 and 8 issues in all.
C17_OneIssuePerCategory ==
  pc = "scan" =>
    /\ \A n \in 1..i : \A c \in DOMAIN patterns :
         IF HasErrorKeyword(lines[n]) /\ RulesMatching(c, lines[n]) # {}
         THEN /\ Cardinality(IssuesAt(n - 1, c)) = 1
              /\ \A k \in IssuesAt(n - 1, c) :
                   /\ issues[k].issue = patterns[c].errors[SetMin(RulesMatching(c, lines[n]))].issue
                   /\ issues[k].line = lines[n]
         ELSE IssuesAt(n - 1, c) = {}
    /\ \A n \in 1..i :
         Cardinality({ k \in DOMAIN issues : issues[k].lineNumber = n - 1 }) \in 0..Len(patterns)
    /\ \A k \in DOMAIN issues : issues[k].lineNumber \in 0..(i - 1)

C17_Witness ==
  /\ pc = "scan" /\ i = 1
  /\ RulesMatching(1, lines[1]) = { 1, 2 }
  /\ RulesMatching(2, lines[1]) = { 4 }
  /\ RulesMatching(8, lines[1]) = { 6 }
  /\ Len(issues) = 3
  /\ issues[1].category = "docker" /\ issues[1].issue = "Docker image not found"
  /\ issues[2].category = "kubernetes"
  /\ issues[3].category = "general" /\ issues[3].issue = "Permission issue"

\* C18: a line without an error keyword adds no issue and leaves the
\* failure tally alone, also when it matches a catalog pattern; every issue
\* comes from a line with an error keyword, and a log without such a line
\* has job_status 'Successful' and no issue.
C18_OnlyErrorLinesMatched ==
  /\ [][(pc = "scan" /\ i < Len(lines) /\ ~HasErrorKeyword(lines[i + 1])) =>
          /\ issues' = issues
          /\ jobContext'.failureContext = jobContext.failureContext
          /\ errorLines' = errorLines]_vars
  /\ [](\A k \in DOMAIN issues : HasErrorKeyword(issues[k].line))
  /\ []((report.returned /\ \A n \in DOMAIN lines : ~HasErrorKeyword(lines[n])) =>
          /\ report.job_status = "Successful"
          /\ report.identified_issues = << >>
          /\ jobContext.failureContext = emptyFailureContext)

C18_Witness ==
  /\ report.returned
  /\ lines = << "warn: info quota exceeded" >>
  /\ AnyRuleMatches(lines[1])
  /\ report.job_status = "Successful"
  /\ issues = << >>

\* the category priorities as the claim lists them
ClaimedPriority(category) ==
  CASE category = "gcp" -> 9
    [] category = "kubernetes" -> 8
    [] category = "docker" -> 7
    [] category = "terraform" -> 6
    [] category \in { "npm", "python", "java" } -> 5
    [] category = "general" -> 3
    [] OTHER -> 0

\* number of positions of seq holding x
Occurrences(seq, x) == Cardinality({ k \in DOMAIN seq : seq[k] = x })

\* every entry has a greater line index than the next, or the same line
\* index and a priority that is not smaller
OrderedByLineThenPriority(p) ==
  \A k \in 1..(Len(p) - 1) :
    \/ p[k].lineNumber > p[k + 1].lineNumber
    \/ /\ p[k].lineNumber = p[k + 1].lineNumber
       /\ ClaimedPriority(p[k].category) >= ClaimedPriority(p[k + 1].category)

\* C19: the prioritized issue list is a permutation of the issues, ordered
\* by descending line index and, on equal line index, by descending category
\* priority; identified_issues is its head.
C19_PrioritizedOrder ==
  report.returned =>
    /\ Len(prioritizeIssues(issues)) = Len(issues)
    /\ \A x \in Range(issues) :
         Occurrences(prioritizeIssues(issues), x) = Occurrences(issues, x)
    /\ OrderedByLineThenPriority(prioritizeIssues(issues))
    /\ OrderedByLineThenPriority(report.identified_issues)
    /\ \A k \in DOMAIN report.identified_issues :
         report.identified_issues[k] = prioritizeIssues(issues)[k]

C19_Witness ==
  /\ report.returned
  /\ Len(lines) = 2
  /\ Len(issues) = 6
  /\ issues[1].category = "docker" /\ issues[1].lineNumber = 0
  /\ issues[2].category = "kubernetes" /\ issues[2].lineNumber = 0
  /\ report.identified_issues[1].category = "kubernetes"
  /\ report.identified_issues[1].lineNumber = 1
  /\ report.identified_issues[2].category = "docker"
  /\ report.identified_issues[4].category = "kubernetes"
  /\ report.identified_issues[4].lineNumber = 0

\* the score of the claim for an error line
ClaimedScore(line) ==
    (IF Includes(ToLowerCase(line), "error:") THEN 5 ELSE 0)
  + (IF Includes(ToLowerCase(line), "exception") THEN 4 ELSE 0)
  + (IF Includes(ToLowerCase(line), "failed") THEN 3 ELSE 0)
  + (IF Includes(ToLowerCase(line), "fatal") THEN 3 ELSE 0)
  + (IF \E d \in { "1", "2", "3", "4", "5", "6", "7", "8", "9" } :
          Includes(ToLowerCase(line), "exit code " \o d)
     THEN 5 ELSE 0)

\* the line the claim selects among the error lines errs
ClaimedBestLine(errs) ==
  LET top == SetMax({ ClaimedScore(errs[k]) : k \in DOMAIN errs })
  IN  IF top > 0
      THEN errs[SetMin({ k \in DOMAIN errs : ClaimedScore(errs[k]) = top })]
      ELSE errs[Len(errs)]

\* C20: the line of the synthesized fallback issue is the error line with
\* the highest score, the earliest of them when several share the highest
\* positive score, and the last error line when every score is zero.
C20_FallbackLine ==
  (report.returned /\ \E k \in DOMAIN issues : issues[k].issue = Unclassified) =>
    /\ Len(issues) = 1
    /\ issues[1].line = ClaimedBestLine(SelectSeq(lines, HasErrorKeyword))
    /\ report.identified_issues[1].line = issues[1].line

C20_Witness ==
  /\ report.returned
  /\ lines = << "panic now", "job failed", "fatal: stop" >>
  /\ ClaimedScore(lines[2]) = 3 /\ ClaimedScore(lines[3]) = 3
  /\ issues[1].issue = Unclassified
  /\ issues[1].line = "job failed"

\* the issue's line index names, in the newline-split log, the issue's line
AtOrigin(x) ==
  /\ x.lineNumber \in 0..(Len(lines) - 1)
  /\ lines[x.lineNumber + 1] = x.line

\* C21: every issue of identified_issues, the synthesized 'Unclassified error
\* detected' issue included, carries the 0-based index of its originating
\* line: the log line at position lineNumber is exactly the issue's line.
C21_LineNumberIsOrigin ==
  report.returned =>
    \A k \in DOMAIN report.identified_issues : AtOrigin(report.identified_issues[k])

\* C21, the part the code keeps: the issues pushed by the rule loops carry the
\* index of their line.
C21_MatchedLineNumberIsOrigin ==
  report.returned =>
    \A k \in DOMAIN report.identified_issues :
      report.identified_issues[k].issue # Unclassified =>
        AtOrigin(report.identified_issues[k])

\* a log whose only error line is its second line: the fallback issue carries
\* index 0, the position of the line among the error lines
C21_Witness ==
  /\ report.returned
  /\ lines = << "Building", "failed" >>
  /\ Len(report.identified_issues) = 1
  /\ report.identified_issues[1].issue = Unclassified
  /\ report.identified_issues[1].line = "failed"
  /\ report.identified_issues[1].lineNumber = 0
  /\ lines[1] # "failed"

\* positions of the lines holding a timestamp
TimestampLines == { k \in DOMAIN lines : Match(timePattern, lines[k]) # NoMatch }

\* the timestamp token of a line: the text of the pattern's match in it
TimestampOf(line) == MatchText(line, Match(timePattern, line))

\* C22: start_time is the timestamp token of the first log line containing a
\* timestamp and end_time that of the last such line; start_time is empty
\* exactly when end_time is, and both are empty when no line has a timestamp.
C22_StartFirstEndLast ==
  report.returned =>
    /\ TimestampLines = {} =>
         /\ report.job_metadata.start_time = ""
         /\ report.job_metadata.end_time = ""
    /\ TimestampLines # {} =>
         /\ report.job_metadata.start_time = TimestampOf(lines[SetMin(TimestampLines)])
         /\ report.job_metadata.end_time = TimestampOf(lines[SetMax(TimestampLines)])
    /\ (report.job_metadata.start_time = "") <=> (report.job_metadata.end_time = "")

C22_Witness ==
  /\ report.returned
  /\ Cardinality(TimestampLines) = 3
  /\ report.job_metadata.start_time = "2024-01-02 10:20:30"
  /\ report.job_metadata.end_time = "2024-01-01T00:00:00.5Z"

\* positions of the lines of the shape 'Checking out <sha> as <ref>'
CheckoutLines == { k \in DOMAIN lines : Match(gitRefPattern, lines[k]) # NoMatch }

CheckoutSha(line) == Capture(line, Match(gitRefPattern, line), 2, 2)

CheckoutRef(line) == Capture(line, Match(gitRefPattern, line), 4, 4)

\* C23: git_sha and git_ref are taken from the first log line of the shape
\* 'Checking out <sha> as <ref>'; later lines of that shape do not change them.
C23_FirstCheckoutWins ==
  (report.returned /\ CheckoutLines # {}) =>
    /\ report.job_metadata.git_sha = CheckoutSha(lines[SetMin(CheckoutLines)])
    /\ report.job_metadata.git_ref = CheckoutRef(lines[SetMin(CheckoutLines)])

\* C23, what the code does: every line of that shape assigns both fields, so
\* the last one stands.
C23_LastCheckoutWins ==
  report.returned =>
    IF CheckoutLines = {}
    THEN report.job_metadata.git_sha = "" /\ report.job_metadata.git_ref = ""
    ELSE /\ report.job_metadata.git_sha = CheckoutSha(lines[SetMax(CheckoutLines)])
         /\ report.job_metadata.git_ref = CheckoutRef(lines[SetMax(CheckoutLines)])

\* two checkout lines: the report carries the second line's sha and ref
C23_Witness ==
  /\ report.returned
  /\ lines = << "Checking out abc123 as main", "checking out 0A1B as release.1" >>
  /\ report.job_metadata.git_sha = "0A1B"
  /\ report.job_metadata.git_ref = "release"

\* the dominant-category note for category c
DominantNote(c) ==
  "Multiple " \o c \o " errors suggest a systemic " \o c \o "-related issue"

\* number of rule-matched issues of category c
MatchedCount(c) ==
  Cardinality({ k \in DOMAIN issues : issues[k].category = c /\ issues[k].issue # Unclassified })

\* positions of the dominant-category notes among the failure patterns
DominantNotes(fp) == { k \in DOMAIN fp : \E c \in Categories : fp[k] = DominantNote(c) }

\* C24: failurePatterns contains a dominant-category note if and only if some
\* category has more than 3 rule-matched issues; there is then exactly one
\* note, and its category has the maximum number of matched issues.
C24_DominantNote ==
  report.returned =>
    /\ (DominantNotes(report.dynamic_insights.failurePatterns) # {})
         <=> (\E c \in Categories : MatchedCount(c) > 3)
    /\ Cardinality(DominantNotes(report.dynamic_insights.failurePatterns)) <= 1
    /\ \A k \in DominantNotes(report.dynamic_insights.failurePatterns) :
         \E c \in Categories :
           /\ report.dynamic_insights.failurePatterns[k] = DominantNote(c)
           /\ \A d \in Categories : MatchedCount(d) <= MatchedCount(c)

C24_Witness ==
  /\ report.returned
  /\ MatchedCount("docker") = 4
  /\ MatchedCount("kubernetes") = 5
  /\ report.dynamic_insights.failurePatterns = << DominantNote("kubernetes") >>

\* the category-specific recommended actions: category, gating substring, text
CategoryActions == {
  [category |-> "docker", word |-> "image not found",
   action |-> "Verify image names and registry paths in your Dockerfile and CI configuration"],
  [category |-> "docker", word |-> "permission",
   action |-> "Check Docker registry credentials and permissions in your CI/CD variables"],
  [category |-> "kubernetes", word |-> "validation",
   action |-> "Run kubectl validate on your manifests before applying them"],
  [category |-> "kubernetes", word |-> "permission",
   action |-> "Review RBAC permissions for the service account used by your CI/CD pipeline"],
  [category |-> "gcp", word |-> "permission",
   action |-> "Check IAM roles for your service account and ensure it has the necessary permissions"],
  [category |-> "gcp", word |-> "not found",
   action |-> "Verify GCP resource names and ensure they exist in the correct project and region"] }

\* the rule-matched issues
MatchedIssues == SelectSeq(issues, LAMBDA x : x.issue # Unclassified)

\* C25: a category-specific recommended action for category C is added only
\* if C is a detected technology and some matched issue of category C has a
\* name containing the action's gating substring; an issue of another
\* category whose name contains the substring never triggers C's action.
C25_ActionNeedsIssueOfCategory ==
  report.returned =>
    \A a \in CategoryActions :
      a.action \in Range(report.dynamic_insights.recommendedActions) =>
        /\ a.category \in Range(report.contextual_analysis.technologiesDetected)
        /\ \E k \in DOMAIN MatchedIssues :
             /\ MatchedIssues[k].category = a.category
             /\ Includes(MatchedIssues[k].issue, a.word)

\* C25, what the code does: the action is added exactly when C is a detected
\* technology, some matched issue has category C, and some matched issue of
\* any category has a name containing the substring.
C25_ActionGates ==
  report.returned =>
    \A a \in CategoryActions :
      a.action \in Range(report.dynamic_insights.recommendedActions) <=>
        /\ a.category \in Range(report.contextual_analysis.technologiesDetected)
        /\ \E k \in DOMAIN MatchedIssues : MatchedIssues[k].category = a.category
        /\ \E k \in DOMAIN MatchedIssues : Includes(MatchedIssues[k].issue, a.word)

\* a docker disk-space issue and a kubernetes permission issue: the docker
\* permission action is recommended
C25_Witness ==
  /\ report.returned
  /\ lines = << "docker failed: no space left on device",
                "failed forbidden: sa cannot get resource" >>
  /\ [k \in DOMAIN issues |-> issues[k].issue]
       = << "Disk space issue", "Kubernetes permission issue" >>
  /\ "Check Docker registry credentials and permissions in your CI/CD variables"
       \in Range(report.dynamic_insights.recommendedActions)

\* the solutions of the issues, in scan order
IssueSolutions == [k \in DOMAIN issues |-> issues[k].solution]

\* the texts generateSmartSolutions adds for a category on its own account
DynamicSolutions == {
  "Verify Docker registry credentials are correctly configured in CI/CD secrets",
  "Use a Kubernetes linter or validator to check manifests before applying",
  "Run 'gcloud projects get-iam-policy' to audit permissions for your service account" }

\* seq without its first n entries
DropFirst(seq, n) == SubSeq(seq, n + 1, Len(seq))

\* seq has no entry twice
NoRepeats(seq) == \A a, b \in DOMAIN seq : seq[a] = seq[b] => a = b

\* the entries of seq in the order of their first occurrence
FirstSeen(seq) ==
  SelectSeq([k \in DOMAIN seq |-> IF \E j \in 1..(k - 1) : seq[j] = seq[k] THEN "" ELSE seq[k]],
            LAMBDA x : x # "")

\* C26: suggestions is the first-seen-order de-duplication of the solution of
\* every issue in scan order, issues beyond identified_issues' cap of 5
\* included, followed by synthesized actions; every issue's solution and every
\* entry of recommendedActions is an element of suggestions.
C26_SuggestionsOrder ==
  report.returned =>
    /\ NoRepeats(report.suggestions)
    /\ SubSeq(report.suggestions, 1, Len(FirstSeen(IssueSolutions))) = FirstSeen(IssueSolutions)
    /\ Range(DropFirst(report.suggestions, Len(FirstSeen(IssueSolutions))))
         \subseteq (DynamicSolutions \cup Range(report.dynamic_insights.recommendedActions))
    /\ Range(IssueSolutions) \subseteq Range(report.suggestions)
    /\ Range(report.dynamic_insights.recommendedActions) \subseteq Range(report.suggestions)

C26_Witness ==
  /\ report.returned
  /\ Len(issues) = 6
  /\ Len(report.identified_issues) = 5
  /\ issues[1].solution \notin { report.identified_issues[k].solution : k \in 1..5 }
  /\ report.suggestions[1] = issues[1].solution
  /\ Len(report.suggestions) = 3

\* the generic action per technology, in the order of the if statements
TechnologyFallbacks == <<
  [tech |-> "docker", action |-> "Verify your Dockerfile syntax and build configuration"],
  [tech |-> "kubernetes",
   action |-> "Check your Kubernetes manifests for syntax errors and ensure proper RBAC permissions"],
  [tech |-> "gcp",
   action |-> "Ensure your GCP service account has sufficient permissions for the operations"],
  [tech |-> "terraform", action |-> "Validate your Terraform configuration and check for state issues"] >>

HardcodedFallbacks == <<
  "Review the full logs to understand the specific error context",
  "Check the job configuration in .gitlab-ci.yml for potential syntax or configuration issues" >>

\* the fallback suggestions the claim expects for the detected technologies
ClaimedFallback(techs) ==
  IF \E k \in DOMAIN TechnologyFallbacks : TechnologyFallbacks[k].tech \in Range(techs)
  THEN [k \in DOMAIN SelectSeq(TechnologyFallbacks, LAMBDA f : f.tech \in Range(techs)) |->
          SelectSeq(TechnologyFallbacks, LAMBDA f : f.tech \in Range(techs))[k].action]
  ELSE HardcodedFallbacks

\* no issue solution and no category-specific recommended action was produced
NothingSpecific ==
  /\ issues = << >>
  /\ \A a \in CategoryActions :
       a.action \notin Range(report.dynamic_insights.recommendedActions)

\* C27: when no issue solution and no category-specific recommended action
\* was produced, suggestions is one generic action per detected technology
\* among docker, kubernetes, gcp and terraform, or the two hardcoded generic
\* suggestions when none of those technologies was detected.
C27_FallbackSuggestions ==
  (report.returned /\ NothingSpecific) =>
    report.suggestions = ClaimedFallback(report.contextual_analysis.technologiesDetected)

\* C27, what the code does: no fallback suggestion is ever returned, since
\* recommendedActions is never empty when generateSmartSolutions tests
\* solutions.length === 0.
C27_FallbacksNeverProduced ==
  report.returned =>
    /\ \A k \in DOMAIN TechnologyFallbacks :
         TechnologyFallbacks[k].action \notin Range(report.suggestions)
    /\ \A k \in DOMAIN HardcodedFallbacks :
         HardcodedFallbacks[k] \notin Range(report.suggestions)
    /\ NothingSpecific => report.suggestions = << GenericAction >>

\* a log naming docker and terraform without error lines: the only suggestion
\* is the generic recommended action
C27_Witness ==
  /\ report.returned
  /\ lines = << "using docker and terraform" >>
  /\ NothingSpecific
  /\ report.contextual_analysis.technologiesDetected = << "docker", "terraform" >>
  /\ report.suggestions = << GenericAction >>

\* C28: for every input log, logs without error lines included,
\* recommendedActions is non-empty, holding the generic 'Review the detailed
\* error logs ...' action whenever no category-specific action applies, and
\* therefore suggestions is never empty.
C28_AlwaysARecommendation ==
  report.returned =>
    /\ report.dynamic_insights.recommendedActions # << >>
    /\ (\A a \in CategoryActions :
          a.action \notin Range(report.dynamic_insights.recommendedActions))
         => GenericAction \in Range(report.dynamic_insights.recommendedActions)
    /\ report.suggestions # << >>

C28_Witness ==
  /\ report.returned
  /\ lines = << "Building", "WARNING: deployment is slow" >>
  /\ errorLines = << >>
  /\ report.dynamic_insights.recommendedActions = << GenericAction >>
  /\ report.suggestions = << GenericAction >>

\* the requests that have not arrived yet
NewRequests == { r \in RequestIds : requests[r].stage = "new" }

\* the request names a session present in the store
NamesStored(body) == body.parameters /\ body.mcp_session_id \in DOMAIN sessions

\* C29, the resolution step, for any request that may arrive in the current
\* state: a present session is reused, its lastAccessed refreshed and nothing
\* created; otherwise exactly one new session is created and resolved to; no
\* existing session is removed and none has its data or creation time
\* changed.
ResolutionStepOf(r, body, res) ==
  /\ NamesStored(body) =>
       /\ res.mcpSessionId = body.mcp_session_id
       /\ res.created = 0
       /\ DOMAIN res.store = DOMAIN sessions
       /\ res.store[body.mcp_session_id].lastAccessed = now
  /\ ~NamesStored(body) =>
       /\ res.created = 1
       /\ Cardinality(DOMAIN res.store \ DOMAIN sessions) = 1
       /\ res.mcpSessionId \in DOMAIN res.store \ DOMAIN sessions
  /\ \A id \in DOMAIN sessions :
       /\ id \in DOMAIN res.store
       /\ res.store[id].data = sessions[id].data
       /\ res.store[id].created = sessions[id].created
       /\ id # body.mcp_session_id => res.store[id] = sessions[id]

C29_ResolutionStep ==
  \A r \in NewRequests : \A body \in Bodies :
    ResolutionStepOf(r, body, ResolveSession(sessions, body, r))

\* the requests answered with status 200
Answered == { r \in RequestIds : requests[r].stage = "responded" /\ requests[r].status = 200 }

\* C29: a webhook request naming a session present in the store reuses it
\* (lastAccessed refreshed, no session created); otherwise exactly one new
\* session is created; the resolution modifies no existing session's data;
\* and in every non-error response the returned mcp_session_id names a
\* session that exists in the store at response time.
C29_WebhookSessionResolution ==
  /\ C29_ResolutionStep
  /\ \A r \in Answered : requests[r].mcpSessionId \in requests[r].storeAtResponse

\* C29, what the code keeps of its last part: the returned id names a
\* session of the store at response time whenever the handler did not wait
\* for an HTTP call, and it named one when the resolution ended in any case.
C29_ReturnedIdUnlessAwaited ==
  /\ \A r \in Answered :
       requests[r].body.tool_name # "api_call" =>
         requests[r].mcpSessionId \in requests[r].storeAtResponse
  /\ \A r \in RequestIds :
       requests[r].stage = "awaiting" =>
         \/ requests[r].mcpSessionId \in DOMAIN sessions
         \/ now - SessionTimeoutMinutes > 0

\* a request whose HTTP call outlasted the session timeout: the response
\* names a session the cleanup has removed
C29_Witness ==
  /\ requests[1].stage = "responded"
  /\ requests[1].status = 200
  /\ requests[1].body.tool_name = "api_call"
  /\ requests[1].created = 1
  /\ requests[1].mcpSessionId = "w1"
  /\ "w1" \notin requests[1].storeAtResponse
  /\ now > SessionTimeoutMinutes

\* the connections whose close handler has not run
OpenConnections == { c \in ConnectionIds : connections[c].stage = "open" }

\* how often the tool event of request r was written to connection c
TimesWritten(c, r) ==
  Cardinality({ k \in DOMAIN connections[c].written :
                  connections[c].written[k].request = r })

\* the positions of the tool events emitted for request r
EventsOf(r) ==
  { k \in DOMAIN emitted : emitted[k].request = r /\ emitted[k].type = "tool-execution" }

\* C30, the delivery: what is written to a connection belongs to its
\* session; an emitted event was written exactly once to every connection
\* open for its session at emit time and to no other, closed ones included;
\* there are as many listeners as open connections.
C30_SseDelivery ==
  /\ \A c \in ConnectionIds : \A k \in DOMAIN connections[c].written :
       connections[c].written[k].sessionId = connections[c].sessionId
  /\ \A k \in DOMAIN emitted : \A c \in ConnectionIds :
       TimesWritten(c, emitted[k].request) =
         IF c \in emitted[k].open /\ connections[c].sessionId = emitted[k].sessionId
         THEN 1 ELSE 0
  /\ Len(listeners) = Cardinality(OpenConnections)

\* C30: SSE delivery is session-scoped under any interleaving of connects,
\* disconnects and webhook calls (events reach exactly the connections open
\* for their session, once; nothing is written after a close; listeners and
\* open connections are equal in number), and each webhook request that
\* reaches tool dispatch, an unknown tool name included, emits exactly one
\* 'tool-execution' event tagged with the resolved session id.
C30_SessionScopedDelivery ==
  /\ C30_SseDelivery
  /\ \A r \in RequestIds :
       requests[r].stage = "responded" =>
         /\ Cardinality(EventsOf(r)) = 1
         /\ \A k \in EventsOf(r) : emitted[k].sessionId = requests[r].mcpSessionId

\* C30, what the code does for the last part: a request answered with 200
\* has emitted exactly one event, tagged with its session; a request whose
\* handler threw is answered with 500 and has emitted none.
C30_OneEventUnlessThrown ==
  \A r \in RequestIds :
    /\ requests[r].stage = "responded" =>
         /\ Cardinality(EventsOf(r)) = (IF requests[r].status = 200 THEN 1 ELSE 0)
         /\ \A k \in EventsOf(r) : emitted[k].sessionId = requests[r].mcpSessionId
         /\ requests[r].status = 500 <=> Throws(requests[r].body)
    /\ requests[r].stage # "responded" => EventsOf(r) = {}

\* a request for a known tool without parameters, sent while a connection of
\* another request's session is open: a session was created for it, the
\* handler threw, and no event was emitted for it
C30_Witness ==
  /\ requests[1].stage = "responded" /\ requests[1].status = 200
  /\ requests[1].mcpSessionId = "w1"
  /\ connections[1].stage = "open" /\ connections[1].sessionId = "w1"
  /\ requests[2].stage = "responded" /\ requests[2].status = 500
  /\ requests[2].body = [parameters |-> FALSE, mcp_session_id |-> "", tool_name |-> "session_data"]
  /\ requests[2].created = 1
  /\ "w2" \in DOMAIN sessions
  /\ EventsOf(2) = {}
  /\ Len(emitted) = 1

====
